---- MODULE Spec2Model ----
(***************************************************************************)
(* Model of the Ayyy-AI assistant: the tool registry (tools/base.py), the  *)
(* tool executor and the turn-processing loop (main.py) and the history    *)
(* store (conversation_store.py).                                          *)
(*                                                                         *)
(* Python values are represented as follows.                               *)
(*   None | value      : a sequence of length 0 or 1 (<<>> is None), except *)
(*                       current_plan, where None is <<>> (an adopted plan *)
(*                       is never empty, main.py:231-239).                 *)
(*   dict              : a record; an optional key is an optional field.   *)
(*   text content      : [form, text, json]; form says how the plan regex  *)
(*                       and the brace test of main.py:212-215 see the     *)
(*                       text, json is what json.loads makes of the        *)
(*                       extracted part.                                   *)
(*   argument payload  : [raw, kind, keys]; raw is the string the model    *)
(*                       sent, kind/keys what json.loads makes of it.      *)
(***************************************************************************)
EXTENDS Integers, Sequences, FiniteSets, TLC

VARIABLES
    registry,                               \* ToolRegistry._tools
    messages,                               \* ModernChatAssistant.messages
    file,                                   \* the history file on disk
    global_objective,
    current_plan,
    current_step_index,
    pending_error_info,
    pc,                                     \* position inside run_interactive_session / process_turn
    request,                                \* current_llm_messages_for_api_call
    llm_response_message,                   \* local of process_turn (<<>> before the first response)
    was_handling_pending_error,             \* local of process_turn
    new_plan_adopted_this_iteration,        \* local of process_turn
    tool_index,                             \* position of the for loop of main.py:268
    tool_message_batch_for_history,         \* local of process_turn
    all_tool_calls_successful_this_round,   \* local of process_turn
    tool_output_dict,                       \* local of process_turn: the last outcome of run_tool
    err_info,                               \* local of process_turn: the error the request asks about
    registered,                             \* history: the tools given to register, in order
    iterations,                             \* history: how each iteration of this turn went
    pre_turn,                               \* history: the transcript when the turn started
    gateway_calls,                          \* history: number of gateway requests sent
    turn_calls,                             \* history: gateway requests sent in this turn
    cursors,                                \* history: the plan length and the cursor at each request of this turn
    dispatched,                             \* history: the calls of this batch given to run_tool, with their outcomes
    invoked,                                \* history: the calls of this batch whose implementation ran
    received,                               \* history: the response as the gateway returned it
    exit_path                               \* history: how the last turn ended

vars == <<registry, messages, file, global_objective, current_plan, current_step_index,
          pending_error_info, pc, request, llm_response_message, was_handling_pending_error,
          new_plan_adopted_this_iteration, tool_index, tool_message_batch_for_history,
          all_tool_calls_successful_this_round, tool_output_dict, pre_turn, gateway_calls,
          turn_calls, cursors, dispatched, invoked, received, exit_path, err_info, registered,
          iterations>>

\* Bounds of the model.
MaxGatewayCalls == 3

----------------------------------------------------------------------------
\* Generic helpers.

RECURSIVE JoinComma(_)
JoinComma(s) ==
    IF Len(s) = 0 THEN ""
    ELSE IF Len(s) = 1 THEN s[1]
    ELSE s[1] \o ", " \o JoinComma(Tail(s))

SeqRange(s) == {s[i] : i \in 1..Len(s)}

Last(s) == s[Len(s)]

Front(s) == SubSeq(s, 1, Len(s) - 1)

----------------------------------------------------------------------------
\* Text content.

NoJson == [syntax |-> "none", has_plan |-> FALSE, plan_is_list |-> FALSE, plan |-> <<>>]

EmptyContent == [form |-> "empty", text |-> "", json |-> NoJson]

Text(s) == [form |-> "text", text |-> s, json |-> NoJson]

\* A JSON object {"plan": steps} as json.loads returns it.
PlanJson(steps) == [syntax |-> "ok", has_plan |-> TRUE, plan_is_list |-> TRUE, plan |-> steps]

\* A plan step of the wire shape {"step_id": int, "goal": string}.
Step(id, goal) == [kind |-> "dict", has_goal |-> TRUE, step_id |-> <<id>>, goal |-> goal]

\* A step dict without a "goal" key, such as {"no_goal": true}.
NoGoalStep == [kind |-> "dict", has_goal |-> FALSE, step_id |-> <<>>, goal |-> ""]

\* A plan entry that is not a dict, such as a bare string.
NonDictStep == [kind |-> "nondict", has_goal |-> FALSE, step_id |-> <<>>, goal |-> ""]

----------------------------------------------------------------------------
\* tools/base.py: ToolDefinition and ToolRegistry.

\* A parameter schema entry; required is the entry's "required" key (<<>> when absent).
Param(name) == [name |-> name, required |-> <<>>]

ParamRequired(name, flag) == [name |-> name, required |-> <<flag>>]

\* A ToolDefinition as constructed: required_fields is None until registered.
ToolDefinition(name, description, parameters, implementation) ==
    [name |-> name, description |-> description, parameters |-> parameters,
     implementation |-> implementation, required_fields |-> <<>>]

\* GetRequired with the default False: only "required": true marks a field.
GetRequiredDefaultFalse(v) == v.required = <<TRUE>>

\* v.get("required", True)
GetRequired(v) == IF v.required = <<>> THEN TRUE ELSE v.required[1]

\* [k for k, v in tool.parameters.items() if v.get("required", True)]
RequiredFieldsOf(parameters) ==
    LET names == [i \in 1..Len(parameters) |-> parameters[i].name]
        keep(n) == \E i \in 1..Len(parameters) :
                       parameters[i].name = n /\ GetRequired(parameters[i])
    IN  SelectSeq(names, keep)

\* name in self._tools
IsRegistered(tools, name) == \E i \in 1..Len(tools) : tools[i].name = name

\* ToolsGet with a lookup that falls back to the first tool instead of None.
ToolsGetOrFirst(tools, name) ==
    IF IsRegistered(tools, name)
    THEN <<tools[CHOOSE i \in 1..Len(tools) : tools[i].name = name]>>
    ELSE IF tools # <<>> THEN <<tools[1]>> ELSE <<>>

\* self._tools.get(name): <<>> when absent.
ToolsGet(tools, name) ==
    IF IsRegistered(tools, name)
    THEN <<tools[CHOOSE i \in 1..Len(tools) : tools[i].name = name]>>
    ELSE <<>>

\* ToolRegistry.register: a name already registered is skipped.
register(tools, tool) ==
    IF IsRegistered(tools, tool.name)
    THEN tools
    ELSE Append(tools, [tool EXCEPT !.required_fields = <<RequiredFieldsOf(tool.parameters)>>])

\* ToolRegistry.get_lm_studio_schemas: one schema per tool of self._tools.values().
get_lm_studio_schemas(tools) ==
    [i \in 1..Len(tools) |->
        [type |-> "function",
         function |->
             [name |-> tools[i].name,
              description |-> tools[i].description,
              parameters |->
                  [type |-> "object",
                   properties |-> tools[i].parameters,
                   required |-> IF tools[i].required_fields = <<>> THEN <<>>
                                ELSE tools[i].required_fields[1]]]]]

\* tool.required_fields or []
RequiredOrEmpty(tool) == IF tool.required_fields = <<>> THEN <<>> ELSE tool.required_fields[1]

\* [field for field in tool.required_fields or [] if field not in kwargs]
MissingFields(tool, kwargs) ==
    LET absent(f) == f \notin kwargs
    IN  SelectSeq(RequiredOrEmpty(tool), absent)

\* What a Python call gives back: a value, or a raised exception with its class and
\* its str(); invoked says whether the tool's implementation was called.
Returned(v, ran) == [raised |-> FALSE, class |-> "", value |-> v, message |-> "", invoked |-> ran]

Raised(class, m, ran) == [raised |-> TRUE, class |-> class, value |-> "", message |-> m, invoked |-> ran]

\* Binding execute(self, name, **kwargs) to the call execute(tool_name, **args): a key
\* of args called like a positional parameter is a TypeError (with both keys present
\* Python names the one that comes first in args; no payload here holds both).
BindingError(kwargs) ==
    IF "name" \in kwargs
    THEN <<"ToolRegistry.execute() got multiple values for argument 'name'">>
    ELSE IF "self" \in kwargs
    THEN <<"ToolRegistry.execute() got multiple values for argument 'self'">>
    ELSE <<>>

\* ToolRegistry.execute(name, **kwargs); impl is what the implementation does when called.
execute(tools, name, kwargs, impl) ==
    LET tool == ToolsGet(tools, name)
    IN  IF BindingError(kwargs) # <<>>
        THEN Raised("TypeError", BindingError(kwargs)[1], FALSE)
        ELSE IF tool = <<>>
        THEN Raised("ValueError", "Tool '" \o name \o "' is not registered", FALSE)
        ELSE IF MissingFields(tool[1], kwargs) # <<>>
        THEN Raised("ValueError", "Missing required arguments for '" \o name \o "': "
                        \o JoinComma(MissingFields(tool[1], kwargs)), FALSE)
        ELSE IF impl.kind = "raise"
        THEN Raised(impl.class, impl.message, TRUE)
        ELSE Returned(impl.value, TRUE)

----------------------------------------------------------------------------
\* main.py: AgileToolExecutor.

\* An argument payload: raw is the string received, kind what json.loads makes of it
\* ("malformed": JSONDecodeError with str() error; "array": a value that is no dict;
\* "object": a dict with the given keys).
Payload(raw, kind, keys, error) == [raw |-> raw, kind |-> kind, keys |-> keys, error |-> error]

Success(result) == [status |-> "success", result |-> result]

Error(message) == [status |-> "error", message |-> message]

\* The classes the except clauses of run_tool catch (main.py:79, 82).
ExceptionClasses == {"JSONDecodeError", "ValueError", "TypeError", "Exception"}

\* The try body of run_tool (main.py:71-78).
RunToolBody(tools, tool_name, tool_args_json_str, impl) ==
    IF tool_args_json_str.kind = "malformed"
    THEN Raised("JSONDecodeError", tool_args_json_str.error, FALSE)
    ELSE IF tool_args_json_str.kind # "object"
    THEN Raised("ValueError", "Tool arguments must be a JSON object (dictionary).", FALSE)
    ELSE execute(tools, tool_name, tool_args_json_str.keys, impl)

\* RunToolHandlers without the except Exception clause.
RunToolHandlersJsonOnly(r) ==
    IF ~r.raised
    THEN [propagated |-> FALSE, outcome |-> Success(r.value), invoked |-> r.invoked]
    ELSE IF r.class = "JSONDecodeError"
    THEN [propagated |-> FALSE, outcome |-> Error("Invalid JSON arguments: " \o r.message),
          invoked |-> r.invoked]
    ELSE [propagated |-> TRUE, outcome |-> Error(r.message), invoked |-> r.invoked]

\* The except clauses of run_tool (main.py:79-84) applied to what the body did:
\* propagated says that the exception leaves run_tool.
RunToolHandlers(r) ==
    IF ~r.raised
    THEN [propagated |-> FALSE, outcome |-> Success(r.value), invoked |-> r.invoked]
    ELSE IF r.class = "JSONDecodeError"
    THEN [propagated |-> FALSE, outcome |-> Error("Invalid JSON arguments: " \o r.message),
          invoked |-> r.invoked]
    ELSE IF r.class \in ExceptionClasses
    THEN [propagated |-> FALSE, outcome |-> Error(r.message), invoked |-> r.invoked]
    ELSE [propagated |-> TRUE, outcome |-> Error(r.message), invoked |-> r.invoked]

\* AgileToolExecutor.run_tool.
run_tool(tools, tool_name, tool_args_json_str, impl) ==
    RunToolHandlers(RunToolBody(tools, tool_name, tool_args_json_str, impl))

----------------------------------------------------------------------------
\* main.py: plan parsing (process_turn, lines 209-251).

\* The part of the content json.loads is given: the regex group of a fenced object,
\* else the whole stripped text when it starts with { and ends with } (<<>>: none).
PlanJsonStr(content) ==
    IF content.form \in {"fenced", "bare"} THEN <<content.json>> ELSE <<>>

\* StepKey that leaves the step_id out of the key.
StepKeyGoalOnly(step) == <<step.goal>>

\* key = (step.get("step_id"), step["goal"])
StepKey(step) == <<step.step_id, step.goal>>

\* The loop of main.py:223-230 from position i on, with the keys seen so far.
RECURSIVE CleanLoop(_, _, _, _)
CleanLoop(steps, i, seen, cleaned_plan) ==
    IF i > Len(steps) THEN cleaned_plan
    ELSE IF steps[i].kind # "dict" \/ ~steps[i].has_goal
    THEN CleanLoop(steps, i + 1, seen, cleaned_plan)
    ELSE IF StepKey(steps[i]) \in seen
    THEN CleanLoop(steps, i + 1, seen, cleaned_plan)
    ELSE CleanLoop(steps, i + 1, seen \cup {StepKey(steps[i])}, Append(cleaned_plan, steps[i]))

\* cleaned_plan of main.py:221-230.
CleanPlan(steps) == CleanLoop(steps, 1, {}, <<>>)

\* Whether json.loads succeeded and gave a dict with a list under "plan" (main.py:218-219).
IsPlanProposal(content) ==
    /\ PlanJsonStr(content) # <<>>
    /\ PlanJsonStr(content)[1].syntax = "ok"
    /\ PlanJsonStr(content)[1].has_plan
    /\ PlanJsonStr(content)[1].plan_is_list

\* PlanToAdopt that takes the proposed list as it is, without cleaning it.
PlanToAdoptUnchecked(content) ==
    IF content.form # "empty" /\ IsPlanProposal(content)
    THEN PlanJsonStr(content)[1].plan
    ELSE <<>>

\* The plan main.py:239 adopts for this content, <<>> when it adopts none
\* (is_valid_plan = bool(cleaned_plan)).
PlanToAdopt(content) ==
    IF content.form # "empty" /\ IsPlanProposal(content)
    THEN CleanPlan(PlanJsonStr(content)[1].plan)
    ELSE <<>>

----------------------------------------------------------------------------
\* conversation_store.py.

\* The order in which the dicts built by main.py hold their keys.
KeyOrder == <<"role", "tool_call_id", "content", "tool_calls">>

\* DumpMessage that writes no "tool_calls" pair.
DumpMessageNoToolCalls(m) ==
    LET present(k) == k \in DOMAIN m /\ k # "tool_calls"
        ks == SelectSeq(KeyOrder, present)
    IN  [i \in 1..Len(ks) |-> <<ks[i], m[ks[i]]>>]

\* json.dumps of one message: its key/value pairs in order.
DumpMessage(m) ==
    LET present(k) == k \in DOMAIN m
        ks == SelectSeq(KeyOrder, present)
    IN  [i \in 1..Len(ks) |-> <<ks[i], m[ks[i]]>>]

\* json.loads of one dumped message: the dict of its pairs.
LoadMessage(pairs) ==
    [k \in {pairs[i][1] : i \in 1..Len(pairs)} |->
        pairs[CHOOSE i \in 1..Len(pairs) : pairs[i][1] = k][2]]

\* json.dumps(history, indent=2)
JsonDumps(history) ==
    [syntax |-> "ok", items |-> [i \in 1..Len(history) |-> DumpMessage(history[i])]]

\* A file that does not exist, and one whose text json.loads rejects.
AbsentFile == [exists |-> FALSE, text |-> [syntax |-> "none", items |-> <<>>]]

CorruptFile == [exists |-> TRUE, text |-> [syntax |-> "malformed", items |-> <<>>]]

\* A file that open(..., "w") has truncated and nothing was written to yet.
EmptyFile == [exists |-> TRUE, text |-> [syntax |-> "empty", items |-> <<>>]]

\* load_history: [] when the file is absent or json.loads raises.
load_history(f) ==
    IF ~f.exists THEN <<>>
    ELSE IF f.text.syntax # "ok" THEN <<>>
    ELSE [i \in 1..Len(f.text.items) |-> LoadMessage(f.text.items[i])]

\* save_history: the file after file.write_text(json.dumps(history, indent=2)).
save_history(history) == [exists |-> TRUE, text |-> JsonDumps(history)]

\* What the file may hold when the process ends inside file.write_text(text) on file
\* old: write_text opens the file for writing, which truncates it, writes and closes;
\* the file is as before (not yet opened), empty, a proper prefix of the text, or the
\* whole text.
InterruptedWrites(old, history) == {old, EmptyFile, CorruptFile, save_history(history)}

----------------------------------------------------------------------------
\* tools/__init__.py and the tool modules it imports.

FILE_TOOLS ==
    << ToolDefinition("read_file", "Read content from a file",
                      <<Param("file_path")>>, "read_file"),
       ToolDefinition("write_file", "Write content to a file",
                      <<Param("file_path"), Param("content")>>, "write_file") >>

SYSTEM_TOOLS ==
    << ToolDefinition("run_command", "Execute a shell command and return its output",
                      <<Param("command"), ParamRequired("timeout", FALSE)>>, "run_command"),
       ToolDefinition("run_python", "Execute Python code and return its output",
                      <<Param("code"), ParamRequired("timeout", FALSE)>>, "run_python") >>

WEB_TOOLS ==
    << ToolDefinition("fetch_url", "Fetch content from a URL", <<Param("url")>>, "fetch_url") >>

IMAGE_TOOLS ==
    << ToolDefinition("process_image", "Process an image by resizing or converting to grayscale.",
                      <<ParamRequired("image_path", TRUE), ParamRequired("operation", TRUE)>>,
                      "process_image") >>

\* The modules embedding_tools and api_tools give no list: both imports of
\* tools/__init__.py fail and leave the empty list.
DATABASE_TOOLS == <<>>

API_TOOLS == <<>>

\* all_tool_lists (tools/__init__.py:41-48), flattened.
AllToolLists ==
    FILE_TOOLS \o SYSTEM_TOOLS \o WEB_TOOLS \o IMAGE_TOOLS \o DATABASE_TOOLS \o API_TOOLS

RECURSIVE RegisterAll(_, _)
RegisterAll(tools, tool_list) ==
    IF tool_list = <<>> THEN tools
    ELSE RegisterAll(register(tools, Head(tool_list)), Tail(tool_list))

\* initialize_tool_registry: every tool of every list, registered in order.
initialize_tool_registry == RegisterAll(<<>>, AllToolLists)

----------------------------------------------------------------------------
\* main.py: the messages and prompts of ModernChatAssistant.

SystemPrompt == "You are a highly capable assistant. For complex requests, first create a step-by-step plan."

PlanAck == "Okay, I have a new plan. I will now proceed with its execution."

SystemMessage(text) == [role |-> "system", content |-> Text(text)]

UserMessage(text) == [role |-> "user", content |-> Text(text)]

\* A tool call as the gateway returns it (tc.id, tc.function.name, tc.function.arguments).
ToolCall(id, name, arguments) == [id |-> id, function |-> [name |-> name, arguments |-> arguments]]

\* The tool_calls entry main.py:254-256 records for a call; arguments is the raw string.
RecordedCall(tc) ==
    [id |-> tc.id,
     function |-> [name |-> tc.function.name, arguments |-> tc.function.arguments.raw],
     type |-> "function"]

\* assistant_message_for_history (main.py:205-206, 253-256): tool_calls only when there are some.
AssistantMessage(content, tool_calls) ==
    IF tool_calls = <<>>
    THEN [role |-> "assistant", content |-> content]
    ELSE [role |-> "assistant", content |-> content,
          tool_calls |-> [i \in 1..Len(tool_calls) |-> RecordedCall(tool_calls[i])]]

\* ToolMessage that answers every call under the id of the first call.
ToolMessageFirstId(tool_call_id, text) ==
    [role |-> "tool", tool_call_id |-> "call_1", content |-> Text(text)]

ToolMessage(tool_call_id, text) ==
    [role |-> "tool", tool_call_id |-> tool_call_id, content |-> Text(text)]

\* json.dumps(tool_output_dict) of a success outcome (main.py:298).
JsonDumpsOutcome(outcome) ==
    "{\"status\": \"success\", \"result\": \"" \o outcome.result \o "\"}"

\* step.get("goal", default)
GoalOr(step, default) == IF step.has_goal THEN step.goal ELSE default

\* error_handling_prompt (main.py:162-171).
ErrorHandlingPrompt(info, objective) ==
    "A previous tool call failed. Tool: '" \o info.tool_name
        \o "', intended for step: '" \o info.step_goal
        \o "' (part of overall objective: '" \o objective
        \o "'), failed with arguments: '" \o info.arguments
        \o "' and error: '" \o info.error_message
        \o "'.\nHow do you want to proceed with this specific step? You can:\n"
        \o "1. Try calling the tool '" \o info.tool_name
        \o "' again with different arguments.\n"
        \o "2. Suggest a different tool for this step.\n"
        \o "3. State that this step cannot be completed and explain why.\n"
        \o "4. Propose a revised plan to achieve the overall objective, outputting the new plan in the required JSON format if you do so."

\* The plan-step instruction (main.py:186-189).
PlanStepPrompt(index, step_goal, objective) ==
    "You are currently executing step " \o ToString(index + 1)
        \o " of your plan: '" \o step_goal
        \o "'. The overall objective is: '" \o objective
        \o "'. Decide if a tool is needed for this specific step or if you can answer directly. "
        \o "If using a tool, provide the precise tool call. If not, provide the answer for this step."

\* SelectMode that looks at the plan before the pending error.
SelectModePlanFirst(msgs, pending, plan, index, objective) ==
    IF plan # <<>> /\ index < Len(plan)
    THEN [mode |-> "step",
          messages |-> msgs,
          request |-> Append(msgs, SystemMessage(
                          PlanStepPrompt(index, GoalOr(plan[index + 1],
                                                       "No goal specified for this step."),
                                         objective)))]
    ELSE IF pending # <<>>
    THEN [mode |-> "error",
          messages |-> msgs,
          request |-> Append(msgs, SystemMessage(ErrorHandlingPrompt(pending[1], objective)))]
    ELSE IF plan # <<>> /\ index >= Len(plan)
    THEN [mode |-> "exhausted", messages |-> msgs, request |-> msgs]
    ELSE [mode |-> "free", messages |-> msgs, request |-> msgs]

\* SelectMode that builds the request in self.messages itself instead of a copy.
SelectModeAliased(msgs, pending, plan, index, objective) ==
    IF pending # <<>>
    THEN [mode |-> "error",
          messages |-> Append(msgs, SystemMessage(ErrorHandlingPrompt(pending[1], objective))),
          request |-> Append(msgs, SystemMessage(ErrorHandlingPrompt(pending[1], objective)))]
    ELSE IF plan # <<>> /\ index < Len(plan)
    THEN [mode |-> "step",
          messages |-> Append(msgs, SystemMessage(
                          PlanStepPrompt(index, GoalOr(plan[index + 1],
                                                       "No goal specified for this step."),
                                         objective))),
          request |-> Append(msgs, SystemMessage(
                          PlanStepPrompt(index, GoalOr(plan[index + 1],
                                                       "No goal specified for this step."),
                                         objective)))]
    ELSE IF plan # <<>> /\ index >= Len(plan)
    THEN [mode |-> "exhausted", messages |-> msgs, request |-> msgs]
    ELSE [mode |-> "free", messages |-> msgs, request |-> msgs]

\* The top of the loop (main.py:155-195): request is current_llm_messages_for_api_call,
\* a copy of the transcript with the instruction of the mode appended; messages is
\* self.messages, which the copy leaves alone; mode is "error", "step", "exhausted"
\* or "free".
SelectMode(msgs, pending, plan, index, objective) ==
    IF pending # <<>>
    THEN [mode |-> "error",
          messages |-> msgs,
          request |-> Append(msgs, SystemMessage(ErrorHandlingPrompt(pending[1], objective)))]
    ELSE IF plan # <<>> /\ index < Len(plan)
    THEN [mode |-> "step",
          messages |-> msgs,
          request |-> Append(msgs, SystemMessage(
                          PlanStepPrompt(index, GoalOr(plan[index + 1],
                                                       "No goal specified for this step."),
                                         objective)))]
    ELSE IF plan # <<>> /\ index >= Len(plan)
    THEN [mode |-> "exhausted", messages |-> msgs, request |-> msgs]
    ELSE [mode |-> "free", messages |-> msgs, request |-> msgs]

\* RetractUser that removes nothing.
RetractNothing(msgs) == msgs

\* RetractUser that pops the last message whatever its role.
RetractLast(msgs) == IF msgs # <<>> THEN Front(msgs) ELSE msgs

\* RetractUser that also pops the message before the user message.
RetractTwo(msgs) ==
    IF msgs # <<>> /\ Last(msgs).role = "user"
    THEN IF Len(msgs) > 1 THEN Front(Front(msgs)) ELSE Front(msgs)
    ELSE msgs

\* main.py:200-201: the transcript after a gateway failure.
RetractUser(msgs) ==
    IF msgs # <<>> /\ Last(msgs).role = "user" THEN Front(msgs) ELSE msgs

\* ParsePlan that leaves the tool calls on the response when it adopts a plan.
ParsePlanKeepsToolCalls(response, plan, index, pending) ==
    IF PlanToAdopt(response.content) # <<>>
    THEN [adopted |-> TRUE,
          current_plan |-> PlanToAdopt(response.content),
          current_step_index |-> 0,
          pending_error_info |-> <<>>,
          content |-> Text(PlanAck),
          tool_calls |-> response.tool_calls]
    ELSE [adopted |-> FALSE,
          current_plan |-> plan,
          current_step_index |-> index,
          pending_error_info |-> pending,
          content |-> response.content,
          tool_calls |-> response.tool_calls]

\* ParsePlan that adopts without resetting the cursor.
ParsePlanKeepsIndex(response, plan, index, pending) ==
    IF PlanToAdopt(response.content) # <<>>
    THEN [adopted |-> TRUE,
          current_plan |-> PlanToAdopt(response.content),
          current_step_index |-> index,
          pending_error_info |-> <<>>,
          content |-> Text(PlanAck),
          tool_calls |-> <<>>]
    ELSE [adopted |-> FALSE,
          current_plan |-> plan,
          current_step_index |-> index,
          pending_error_info |-> pending,
          content |-> response.content,
          tool_calls |-> response.tool_calls]

\* ParsePlan that gives up the current plan when the proposal holds no valid step.
ParsePlanDropsPlanOnEmptyProposal(response, plan, index, pending) ==
    IF PlanToAdopt(response.content) # <<>>
    THEN [adopted |-> TRUE,
          current_plan |-> PlanToAdopt(response.content),
          current_step_index |-> 0,
          pending_error_info |-> <<>>,
          content |-> Text(PlanAck),
          tool_calls |-> <<>>]
    ELSE IF response.content.form # "empty" /\ IsPlanProposal(response.content)
    THEN [adopted |-> FALSE,
          current_plan |-> <<>>,
          current_step_index |-> 0,
          pending_error_info |-> pending,
          content |-> response.content,
          tool_calls |-> response.tool_calls]
    ELSE [adopted |-> FALSE,
          current_plan |-> plan,
          current_step_index |-> index,
          pending_error_info |-> pending,
          content |-> response.content,
          tool_calls |-> response.tool_calls]

\* Plan parsing and adoption (main.py:205-251) for a response: the plan state after
\* it, the content to record and the tool calls left on the response.
ParsePlan(response, plan, index, pending) ==
    IF PlanToAdopt(response.content) # <<>>
    THEN [adopted |-> TRUE,
          current_plan |-> PlanToAdopt(response.content),
          current_step_index |-> 0,
          pending_error_info |-> <<>>,
          content |-> Text(PlanAck),
          tool_calls |-> <<>>]
    ELSE [adopted |-> FALSE,
          current_plan |-> plan,
          current_step_index |-> index,
          pending_error_info |-> pending,
          content |-> response.content,
          tool_calls |-> response.tool_calls]

\* FailedStepGoal that does not look at the plan.
FailedStepGoalIgnoresPlan(plan, index, was_handling, pending) ==
    IF was_handling /\ pending # <<>>
    THEN pending[1].step_goal
    ELSE "N/A"

\* current_step_goal of main.py:282-286 for a failing call.
FailedStepGoal(plan, index, was_handling, pending) ==
    IF plan # <<>> /\ index < Len(plan)
    THEN GoalOr(plan[index + 1], "Goal not specified")
    ELSE IF was_handling /\ pending # <<>>
    THEN pending[1].step_goal
    ELSE "N/A"

\* FoldOutcome without the break after a failing call.
FoldOutcomeNoBreak(tool_call, outcome, plan, index, was_handling, pending, batch, all_successful) ==
    IF outcome.status = "error"
    THEN [pending_error_info |->
              <<[tool_name |-> tool_call.function.name,
                 step_goal |-> FailedStepGoal(plan, index, was_handling, pending),
                 error_message |-> outcome.message,
                 arguments |-> tool_call.function.arguments.raw]>>,
          batch |-> Append(batch, ToolMessage(tool_call.id, "Error: " \o outcome.message)),
          all_successful |-> FALSE,
          break |-> FALSE]
    ELSE [pending_error_info |-> IF was_handling THEN <<>> ELSE pending,
          batch |-> Append(batch, ToolMessage(tool_call.id, JsonDumpsOutcome(outcome))),
          all_successful |-> all_successful,
          break |-> FALSE]

\* FoldOutcome without the tool message of the failing call (main.py:291-292).
FoldOutcomeDropsErrorMessage(tool_call, outcome, plan, index, was_handling, pending, batch, all_successful) ==
    IF outcome.status = "error"
    THEN [pending_error_info |->
              <<[tool_name |-> tool_call.function.name,
                 step_goal |-> FailedStepGoal(plan, index, was_handling, pending),
                 error_message |-> outcome.message,
                 arguments |-> tool_call.function.arguments.raw]>>,
          batch |-> batch,
          all_successful |-> FALSE,
          break |-> TRUE]
    ELSE [pending_error_info |-> IF was_handling THEN <<>> ELSE pending,
          batch |-> Append(batch, ToolMessage(tool_call.id, JsonDumpsOutcome(outcome))),
          all_successful |-> all_successful,
          break |-> FALSE]

\* One pass of the loop body of main.py:268-301 on the outcome of a call: the pending
\* error, the batch of tool messages, the success flag, and whether the loop breaks.
FoldOutcome(tool_call, outcome, plan, index, was_handling, pending, batch, all_successful) ==
    IF outcome.status = "error"
    THEN [pending_error_info |->
              <<[tool_name |-> tool_call.function.name,
                 step_goal |-> FailedStepGoal(plan, index, was_handling, pending),
                 error_message |-> outcome.message,
                 arguments |-> tool_call.function.arguments.raw]>>,
          batch |-> Append(batch, ToolMessage(tool_call.id, "Error: " \o outcome.message)),
          all_successful |-> FALSE,
          break |-> TRUE]
    ELSE [pending_error_info |-> IF was_handling THEN <<>> ELSE pending,
          batch |-> Append(batch, ToolMessage(tool_call.id, JsonDumpsOutcome(outcome))),
          all_successful |-> all_successful,
          break |-> FALSE]

\* AfterBatch that ends the turn when the batch failed.
AfterBatchBreakOnFailure(all_successful, pending, plan, index) ==
    IF ~all_successful /\ pending # <<>>
    THEN [pending_error_info |-> pending, current_step_index |-> index, break |-> TRUE]
    ELSE IF all_successful
    THEN IF plan # <<>>
         THEN [pending_error_info |-> <<>>, current_step_index |-> index + 1,
               break |-> index + 1 >= Len(plan)]
         ELSE [pending_error_info |-> <<>>, current_step_index |-> index, break |-> FALSE]
    ELSE [pending_error_info |-> pending, current_step_index |-> index, break |-> FALSE]

\* AfterBatch that leaves the cursor where it is after a successful batch.
AfterBatchNoAdvance(all_successful, pending, plan, index) ==
    IF ~all_successful /\ pending # <<>>
    THEN [pending_error_info |-> pending, current_step_index |-> index, break |-> FALSE]
    ELSE IF all_successful
    THEN IF plan # <<>>
         THEN [pending_error_info |-> <<>>, current_step_index |-> index,
               break |-> index + 1 >= Len(plan)]
         ELSE [pending_error_info |-> <<>>, current_step_index |-> index, break |-> FALSE]
    ELSE [pending_error_info |-> pending, current_step_index |-> index, break |-> FALSE]

\* AfterBatch that ends the turn after a successful batch when no plan is active.
AfterBatchEndsWithoutPlan(all_successful, pending, plan, index) ==
    IF ~all_successful /\ pending # <<>>
    THEN [pending_error_info |-> pending, current_step_index |-> index, break |-> FALSE]
    ELSE IF all_successful
    THEN IF plan # <<>>
         THEN [pending_error_info |-> <<>>, current_step_index |-> index + 1,
               break |-> index + 1 >= Len(plan)]
         ELSE [pending_error_info |-> <<>>, current_step_index |-> index, break |-> TRUE]
    ELSE [pending_error_info |-> pending, current_step_index |-> index, break |-> FALSE]

\* AfterBatch that advances the cursor after a failed batch too.
AfterBatchAdvanceOnFailure(all_successful, pending, plan, index) ==
    IF ~all_successful /\ pending # <<>>
    THEN [pending_error_info |-> pending, current_step_index |-> index + 1, break |-> FALSE]
    ELSE IF all_successful
    THEN IF plan # <<>>
         THEN [pending_error_info |-> <<>>, current_step_index |-> index + 1,
               break |-> index + 1 >= Len(plan)]
         ELSE [pending_error_info |-> <<>>, current_step_index |-> index, break |-> FALSE]
    ELSE [pending_error_info |-> pending, current_step_index |-> index, break |-> FALSE]

\* AfterBatch that restarts the plan from its first step after a failed batch.
AfterBatchRestartsOnFailure(all_successful, pending, plan, index) ==
    IF ~all_successful /\ pending # <<>>
    THEN [pending_error_info |-> pending, current_step_index |-> 0, break |-> FALSE]
    ELSE IF all_successful
    THEN IF plan # <<>>
         THEN [pending_error_info |-> <<>>, current_step_index |-> index + 1,
               break |-> index + 1 >= Len(plan)]
         ELSE [pending_error_info |-> <<>>, current_step_index |-> index, break |-> FALSE]
    ELSE [pending_error_info |-> pending, current_step_index |-> index, break |-> FALSE]

\* AfterBatch that ends the turn only once the cursor has passed the plan length.
AfterBatchBreakLate(all_successful, pending, plan, index) ==
    IF ~all_successful /\ pending # <<>>
    THEN [pending_error_info |-> pending, current_step_index |-> index, break |-> FALSE]
    ELSE IF all_successful
    THEN IF plan # <<>>
         THEN [pending_error_info |-> <<>>, current_step_index |-> index + 1,
               break |-> index + 1 > Len(plan)]
         ELSE [pending_error_info |-> <<>>, current_step_index |-> index, break |-> FALSE]
    ELSE [pending_error_info |-> pending, current_step_index |-> index, break |-> FALSE]

\* main.py:306-321, after the batch: the pending error, the cursor, and whether the
\* turn ends (break) or the loop goes round again.
AfterBatch(all_successful, pending, plan, index) ==
    IF ~all_successful /\ pending # <<>>
    THEN [pending_error_info |-> pending, current_step_index |-> index, break |-> FALSE]
    ELSE IF all_successful
    THEN IF plan # <<>>
         THEN [pending_error_info |-> <<>>, current_step_index |-> index + 1,
               break |-> index + 1 >= Len(plan)]
         ELSE [pending_error_info |-> <<>>, current_step_index |-> index, break |-> FALSE]
    ELSE [pending_error_info |-> pending, current_step_index |-> index, break |-> FALSE]

\* The cursor after main.py:323-330 (a text answer to an error prompt).
IndexAfterTextualResolution(was_handling, adopted, plan, index) ==
    IF was_handling /\ ~adopted /\ plan # <<>> THEN index + 1 ELSE index

\* TextOutcome that leaves the cursor on the step a text response answered.
TextOutcomeNoAdvance(was_handling, adopted, plan, index, pending) ==
    LET p1 == IF was_handling /\ ~adopted THEN <<>> ELSE pending
        i1 == IndexAfterTextualResolution(was_handling, adopted, plan, index)
        i2 == i1
    IN  IF plan # <<>>
        THEN IF i2 >= Len(plan)
             THEN [pending_error_info |-> <<>>, current_step_index |-> i2, break |-> TRUE]
             ELSE [pending_error_info |-> p1, current_step_index |-> i2, break |-> FALSE]
        ELSE [pending_error_info |-> <<>>, current_step_index |-> i1, break |-> TRUE]

\* TextOutcome that goes round the loop again when no plan is active.
TextOutcomeLoopsWithoutPlan(was_handling, adopted, plan, index, pending) ==
    LET p1 == IF was_handling /\ ~adopted THEN <<>> ELSE pending
        i1 == IndexAfterTextualResolution(was_handling, adopted, plan, index)
        i2 == IF ~adopted /\ ~(was_handling /\ i1 < Len(plan)) THEN i1 + 1 ELSE i1
    IN  IF plan # <<>>
        THEN IF i2 >= Len(plan)
             THEN [pending_error_info |-> <<>>, current_step_index |-> i2, break |-> TRUE]
             ELSE [pending_error_info |-> p1, current_step_index |-> i2, break |-> FALSE]
        ELSE [pending_error_info |-> <<>>, current_step_index |-> i1, break |-> FALSE]

\* main.py:322-351, a response without tool calls: the pending error, the cursor, and
\* whether the turn ends.
TextOutcome(was_handling, adopted, plan, index, pending) ==
    LET p1 == IF was_handling /\ ~adopted THEN <<>> ELSE pending
        i1 == IndexAfterTextualResolution(was_handling, adopted, plan, index)
        i2 == IF ~adopted /\ ~(was_handling /\ i1 < Len(plan)) THEN i1 + 1 ELSE i1
    IN  IF plan # <<>>
        THEN IF i2 >= Len(plan)
             THEN [pending_error_info |-> <<>>, current_step_index |-> i2, break |-> TRUE]
             ELSE [pending_error_info |-> p1, current_step_index |-> i2, break |-> FALSE]
        ELSE [pending_error_info |-> <<>>, current_step_index |-> i1, break |-> TRUE]

----------------------------------------------------------------------------
\* The inputs of the model: what the user types, what the gateway returns, what a
\* tool implementation does.

UserInputs == {"summarise notes.txt"}

ReadArgs == Payload("{\"file_path\": \"notes.txt\"}", "object", {"file_path"}, "")

WriteArgs == Payload("{\"file_path\": \"out.txt\", \"content\": \"x\"}", "object",
                     {"file_path", "content"}, "")

SearchArgs == Payload("{\"query\": \"tla\"}", "object", {"query"}, "")

\* A step of each plan the gateway proposes.
StepA == Step(1, "read the notes")

StepB == Step(2, "write the summary")

StepC == Step(1, "answer directly")

\* {"plan": [A, A, {"no_goal": true}, B]} in a fenced block: adopted as [A, B].
PlanAB == [form |-> "fenced", text |-> "", json |-> PlanJson(<<StepA, StepA, NoGoalStep, StepB>>)]

\* {"plan": [C]} as the whole text: adopted as [C].
PlanC == [form |-> "bare", text |-> "", json |-> PlanJson(<<StepC>>)]

\* {"plan": []} in a fenced block.
EmptyPlan == [form |-> "fenced", text |-> "", json |-> PlanJson(<<>>)]

\* {"plan": [{"no_goal": true}, "later"]} as the whole text.
InvalidPlan == [form |-> "bare", text |-> "", json |-> PlanJson(<<NoGoalStep, NonDictStep>>)]

\* A fenced block whose object json.loads rejects.
MalformedPlan ==
    [form |-> "fenced", text |-> "",
     json |-> [syntax |-> "malformed", has_plan |-> FALSE, plan_is_list |-> FALSE, plan |-> <<>>]]

Response(content, tool_calls) == [content |-> content, tool_calls |-> tool_calls]

\* The responses the gateway may return in Spec.
Responses ==
    { Response(Text("Here is the answer."), <<>>),
      Response(EmptyContent, <<ToolCall("call_1", "read_file", ReadArgs)>>),
      Response(Text("Working on it."),
               <<ToolCall("call_1", "read_file", ReadArgs),
                 ToolCall("call_2", "write_file", WriteArgs),
                 ToolCall("call_3", "read_file", ReadArgs)>>),
      Response(EmptyContent, <<ToolCall("call_1", "web_search", SearchArgs)>>),
      Response(PlanAB, <<>>),
      Response(PlanC, <<ToolCall("call_1", "read_file", ReadArgs)>>),
      Response(EmptyPlan, <<ToolCall("call_1", "read_file", ReadArgs)>>),
      Response(InvalidPlan, <<>>),
      Response(MalformedPlan, <<>>) }

ImplReturns(value) == [kind |-> "return", class |-> "", value |-> value, message |-> ""]

ImplRaises(class, message) == [kind |-> "raise", class |-> class, value |-> "", message |-> message]

\* What a tool implementation may do when it is called.
ImplOutcomes ==
    { ImplReturns("done"), ImplRaises("Exception", "[Errno 2] No such file or directory") }

\* The history file the assistant may find when it starts.
PreviousSession ==
    << SystemMessage(SystemPrompt), UserMessage("hello"),
       AssistantMessage(Text("Hi, how can I help?"), <<>>) >>

InitialFiles == {AbsentFile, CorruptFile, save_history(PreviousSession)}

----------------------------------------------------------------------------
\* The state machine.

locals == <<request, llm_response_message, was_handling_pending_error,
            new_plan_adopted_this_iteration, tool_index, tool_message_batch_for_history,
            all_tool_calls_successful_this_round, tool_output_dict, err_info>>

\* The locals of process_turn before the loop has bound them, and after it returned.
LocalsUnbound ==
    /\ request' = <<>>
    /\ llm_response_message' = <<>>
    /\ was_handling_pending_error' = FALSE
    /\ new_plan_adopted_this_iteration' = FALSE
    /\ tool_index' = 0
    /\ tool_message_batch_for_history' = <<>>
    /\ all_tool_calls_successful_this_round' = TRUE
    /\ tool_output_dict' = <<>>
    /\ err_info' = <<>>

\* self.messages after main.py:95-106 on history file f.
MessagesAfterInit(f) ==
    IF load_history(f) = <<>> THEN <<SystemMessage(SystemPrompt)>> ELSE load_history(f)

\* The history file after main.py:95-107: written only when nothing was loaded.
FileAfterInit(f) ==
    IF load_history(f) = <<>> THEN save_history(<<SystemMessage(SystemPrompt)>>) ELSE f

\* ModernChatAssistant.__init__ (main.py:87-113) on history file f.
InitWith(f) ==
        /\ registry = initialize_tool_registry
        /\ messages = MessagesAfterInit(f)
        /\ file = FileAfterInit(f)
        /\ global_objective = <<>>
        /\ current_plan = <<>>
        /\ current_step_index = 0
        /\ pending_error_info = <<>>
        /\ pc = "idle"
        /\ request = <<>>
        /\ llm_response_message = <<>>
        /\ was_handling_pending_error = FALSE
        /\ new_plan_adopted_this_iteration = FALSE
        /\ tool_index = 0
        /\ tool_message_batch_for_history = <<>>
        /\ all_tool_calls_successful_this_round = TRUE
        /\ tool_output_dict = <<>>
        /\ err_info = <<>>
        /\ registered = AllToolLists
        /\ iterations = <<>>
        /\ pre_turn = <<>>
        /\ gateway_calls = 0
        /\ turn_calls = 0
        /\ cursors = <<>>
        /\ dispatched = <<>>
        /\ invoked = <<>>
        /\ received = <<>>
        /\ exit_path = "none"

Init == \E f \in InitialFiles : InitWith(f)

\* How a batch of tool calls went, for the history of the turn.
BatchKind(all_successful) == IF all_successful THEN "batch_ok" ELSE "batch_failed"

\* EndTurn without the final reset of pending_error_info.
EndTurnKeepsPending(msgs, path) ==
    /\ messages' = msgs
    /\ global_objective' = <<>>
    /\ UNCHANGED pending_error_info
    /\ file' = save_history(msgs)
    /\ pc' = "idle"
    /\ exit_path' = path
    /\ LocalsUnbound

\* EndTurn without the final _save_history.
EndTurnNoSave(msgs, path) ==
    /\ messages' = msgs
    /\ global_objective' = <<>>
    /\ pending_error_info' = <<>>
    /\ UNCHANGED file
    /\ pc' = "idle"
    /\ exit_path' = path
    /\ LocalsUnbound

\* The end of process_turn (main.py:353-355) with transcript msgs, left by way path.
EndTurn(msgs, path) ==
    /\ messages' = msgs
    /\ global_objective' = <<>>
    /\ pending_error_info' = <<>>
    /\ file' = save_history(msgs)
    /\ pc' = "idle"
    /\ exit_path' = path
    /\ LocalsUnbound

\* ProcessTurn without the reset of the plan and the cursor.
ProcessTurnKeepsPlan(user_input) ==
    /\ pc = "idle"
    /\ gateway_calls < MaxGatewayCalls
    /\ messages' = Append(messages, UserMessage(user_input))
    /\ file' = save_history(Append(messages, UserMessage(user_input)))
    /\ global_objective' = <<user_input>>
    /\ pc' = "loop"
    /\ pre_turn' = messages
    /\ turn_calls' = 0
    /\ cursors' = <<>>
    /\ dispatched' = <<>>
    /\ invoked' = <<>>
    /\ received' = <<>>
    /\ exit_path' = "running"
    /\ iterations' = <<>>
    /\ UNCHANGED <<registry, current_plan, current_step_index, pending_error_info, locals,
                   gateway_calls, registered>>

\* process_turn up to the loop (main.py:143-151).
ProcessTurn(user_input) ==
    /\ pc = "idle"
    /\ gateway_calls < MaxGatewayCalls
    /\ messages' = Append(messages, UserMessage(user_input))
    /\ file' = save_history(Append(messages, UserMessage(user_input)))
    /\ global_objective' = <<user_input>>
    /\ current_plan' = <<>>
    /\ current_step_index' = 0
    /\ pc' = "loop"
    /\ pre_turn' = messages
    /\ turn_calls' = 0
    /\ cursors' = <<>>
    /\ dispatched' = <<>>
    /\ invoked' = <<>>
    /\ received' = <<>>
    /\ exit_path' = "running"
    /\ iterations' = <<>>
    /\ UNCHANGED <<registry, pending_error_info, locals, gateway_calls, registered>>

\* The top of the loop up to the gateway call (main.py:155-197).
LoopTop ==
    /\ pc = "loop"
    /\ gateway_calls < MaxGatewayCalls
    /\ LET sel == SelectMode(messages, pending_error_info, current_plan,
                             current_step_index, global_objective[1])
       IN  IF sel.mode = "exhausted"
           THEN /\ EndTurn(sel.messages, "plan_exhausted")
                /\ UNCHANGED <<registry, current_plan, current_step_index, pre_turn,
                               gateway_calls, turn_calls, cursors, dispatched, invoked, received>>
           ELSE /\ was_handling_pending_error' = (sel.mode = "error")
                /\ err_info' = IF sel.mode = "error" THEN pending_error_info ELSE err_info
                /\ request' = sel.request
                /\ messages' = sel.messages
                /\ pc' = "gateway"
                /\ gateway_calls' = gateway_calls + 1
                /\ turn_calls' = turn_calls + 1
                /\ cursors' = Append(cursors, [plan_len |-> Len(current_plan),
                                                 index |-> current_step_index])
                /\ UNCHANGED <<registry, file, global_objective, current_plan,
                               current_step_index, pending_error_info, llm_response_message,
                               new_plan_adopted_this_iteration, tool_index,
                               tool_message_batch_for_history,
                               all_tool_calls_successful_this_round, tool_output_dict,
                               pre_turn, dispatched, invoked, received, exit_path>>
    /\ UNCHANGED <<registered, iterations>>

\* The gateway returns None (main.py:199-203, 353-355).
GatewayFails ==
    /\ pc = "gateway"
    /\ EndTurn(RetractUser(messages), "gateway_failure")
    /\ received' = <<>>
    /\ iterations' = Append(iterations, "gateway_failure")
    /\ UNCHANGED <<registry, current_plan, current_step_index, pre_turn, gateway_calls,
                   turn_calls, cursors, dispatched, invoked, registered>>

\* The gateway returns a message: plan parsing and the assistant message
\* (main.py:205-261).
GatewayResponds(response) ==
    /\ pc = "gateway"
    /\ LET p == ParsePlan(response, current_plan, current_step_index, pending_error_info)
       IN  /\ received' = <<response>>
           /\ llm_response_message' = <<Response(response.content, p.tool_calls)>>
           /\ new_plan_adopted_this_iteration' = p.adopted
           /\ current_plan' = p.current_plan
           /\ current_step_index' = p.current_step_index
           /\ pending_error_info' = p.pending_error_info
           /\ messages' = Append(messages, AssistantMessage(p.content, p.tool_calls))
           /\ file' = save_history(Append(messages, AssistantMessage(p.content, p.tool_calls)))
           /\ pc' = IF p.tool_calls # <<>> THEN "tools" ELSE "text"
           /\ tool_index' = IF p.tool_calls # <<>> THEN 1 ELSE 0
    /\ tool_message_batch_for_history' = <<>>
    /\ all_tool_calls_successful_this_round' = TRUE
    /\ dispatched' = <<>>
    /\ invoked' = <<>>
    /\ UNCHANGED <<registry, global_objective, request, was_handling_pending_error,
                   tool_output_dict, pre_turn, gateway_calls, turn_calls, cursors, exit_path,
                   err_info, registered, iterations>>

\* One pass of the for loop over the tool calls (main.py:268-301) and, after the last
\* pass, the rest of the iteration (main.py:303-321, 353-355). impl is what the
\* implementation does if it is called.
DispatchTool(impl) ==
    /\ pc = "tools"
    /\ LET tool_calls == llm_response_message[1].tool_calls
           tool_call == tool_calls[tool_index]
           r == run_tool(registry, tool_call.function.name, tool_call.function.arguments, impl)
           f == FoldOutcome(tool_call, r.outcome, current_plan, current_step_index,
                            was_handling_pending_error, pending_error_info,
                            tool_message_batch_for_history,
                            all_tool_calls_successful_this_round)
           last == f.break \/ tool_index = Len(tool_calls)
           a == AfterBatch(f.all_successful, f.pending_error_info, current_plan,
                           current_step_index)
       IN  /\ dispatched' = Append(dispatched, [call |-> tool_call, outcome |-> r.outcome])
           /\ invoked' = IF r.invoked
                         THEN Append(invoked,
                                     [call |-> tool_call, impl |-> impl,
                                      implementation |->
                                          ToolsGet(registry, tool_call.function.name)[1]
                                              .implementation])
                         ELSE invoked
           /\ IF r.propagated
              THEN \* the exception leaves process_turn; run_interactive_session
                   \* (main.py:382-386) reports it and ends the session
                   /\ pc' = "crashed"
                   /\ UNCHANGED <<messages, file, global_objective, current_plan,
                                  current_step_index, pending_error_info, locals, exit_path,
                                  iterations>>
              ELSE IF ~last
              THEN /\ pending_error_info' = f.pending_error_info
                   /\ tool_message_batch_for_history' = f.batch
                   /\ all_tool_calls_successful_this_round' = f.all_successful
                   /\ tool_output_dict' = <<r.outcome>>
                   /\ tool_index' = tool_index + 1
                   /\ UNCHANGED <<messages, file, global_objective, current_plan,
                                  current_step_index, pc, request, llm_response_message,
                                  was_handling_pending_error,
                                  new_plan_adopted_this_iteration, exit_path, err_info,
                                  iterations>>
              ELSE IF a.break
              THEN /\ EndTurn(messages \o f.batch, "plan_complete_tools")
                   /\ current_step_index' = a.current_step_index
                   /\ iterations' = Append(iterations, BatchKind(f.all_successful))
                   /\ UNCHANGED current_plan
              ELSE /\ messages' = messages \o f.batch
                   /\ file' = save_history(messages \o f.batch)
                   /\ pending_error_info' = a.pending_error_info
                   /\ current_step_index' = a.current_step_index
                   /\ tool_message_batch_for_history' = f.batch
                   /\ all_tool_calls_successful_this_round' = f.all_successful
                   /\ tool_output_dict' = <<r.outcome>>
                   /\ pc' = "loop"
                   /\ iterations' = Append(iterations, BatchKind(f.all_successful))
                   /\ UNCHANGED <<global_objective, current_plan, request,
                                  llm_response_message, was_handling_pending_error,
                                  new_plan_adopted_this_iteration, tool_index, exit_path,
                                  err_info>>
    /\ UNCHANGED <<registry, pre_turn, gateway_calls, turn_calls, cursors, received, registered>>

\* The rest of an iteration whose response holds no tool calls (main.py:322-351, 353-355).
TextResponse ==
    /\ pc = "text"
    /\ LET t == TextOutcome(was_handling_pending_error, new_plan_adopted_this_iteration,
                            current_plan, current_step_index, pending_error_info)
       IN  /\ current_step_index' = t.current_step_index
           /\ IF t.break
              THEN EndTurn(messages, IF current_plan # <<>> THEN "plan_complete_text"
                                     ELSE "final_answer")
              ELSE /\ pending_error_info' = t.pending_error_info
                   /\ pc' = "loop"
                   /\ UNCHANGED <<messages, file, global_objective, locals, exit_path>>
    /\ iterations' = Append(iterations, IF new_plan_adopted_this_iteration THEN "adopted"
                                         ELSE "text")
    /\ UNCHANGED <<registry, current_plan, pre_turn, gateway_calls, turn_calls, cursors, dispatched,
                   invoked, received, registered>>

Next ==
    \/ \E user_input \in UserInputs : ProcessTurn(user_input)
    \/ LoopTop
    \/ GatewayFails
    \/ \E response \in Responses : GatewayResponds(response)
    \/ \E impl \in ImplOutcomes : DispatchTool(impl)
    \/ TextResponse

Spec == Init /\ [][Next]_vars

----------------------------------------------------------------------------
\* Dispatch on its own: the first request of a session is answered with one tool call
\* drawn from every tool name and argument payload below.

ToolNames == {"read_file", "write_file", "run_command", "web_search"}

ArgumentKeys == <<"file_path", "content", "command", "timeout", "name">>

\* The payload string of a JSON object with the given keys.
RawObject(keys) ==
    LET in(k) == k \in keys
    IN  "{" \o JoinComma(SelectSeq(ArgumentKeys, in)) \o "}"

Payloads ==
    {Payload(RawObject(keys), "object", keys, "") : keys \in SUBSET SeqRange(ArgumentKeys)}
        \cup {Payload("[1, 2]", "array", {}, ""),
              Payload("{bad", "malformed", {},
                      "Expecting property name enclosed in double quotes: line 1 column 2 (char 1)")}

DispatchCalls == {ToolCall("call_1", name, payload) : name \in ToolNames, payload \in Payloads}

\* What an implementation may do, with the argument-type error it may detect itself.
AllImplOutcomes ==
    ImplOutcomes \cup {ImplRaises("TypeError", "expected str, bytes or os.PathLike object, not int")}

GatewayRequestsCall ==
    /\ gateway_calls = 1
    /\ \E tool_call \in DispatchCalls : GatewayResponds(Response(EmptyContent, <<tool_call>>))

DispatchAny == \E impl \in AllImplOutcomes : DispatchTool(impl)

NextDispatch ==
    \/ \E user_input \in UserInputs : ProcessTurn(user_input)
    \/ LoopTop
    \/ GatewayRequestsCall
    \/ DispatchAny

SpecDispatch == Init /\ [][NextDispatch]_vars

----------------------------------------------------------------------------
\* Plan parsing on its own: the first request of a session is answered with a plan
\* proposal drawn from every list of at most MaxPlanLen entries.

MaxPlanLen == 3

\* A step dict with a goal and no step_id.
StepNoId(goal) == [kind |-> "dict", has_goal |-> TRUE, step_id |-> <<>>, goal |-> goal]

PlanEntries ==
    {Step(1, "a"), Step(2, "b"), Step(2, "a"), StepNoId("a"), NoGoalStep, NonDictStep}

PlanLists == UNION {[1..n -> PlanEntries] : n \in 0..MaxPlanLen}

PlanProposals ==
    {[form |-> form, text |-> "", json |-> PlanJson(steps)] :
        form \in {"fenced", "bare"}, steps \in PlanLists}

GatewayProposes ==
    /\ gateway_calls = 1
    /\ \E content \in PlanProposals : GatewayResponds(Response(content, <<>>))

NextPlan ==
    \/ \E user_input \in UserInputs : ProcessTurn(user_input)
    \/ LoopTop
    \/ GatewayProposes
    \/ TextResponse

SpecPlan == Init /\ [][NextPlan]_vars

----------------------------------------------------------------------------
\* The registry on its own: initialize_tool_registry is given up to MaxRegistrations
\* tools, among them tools of the same name, and the first request of the session is
\* answered with one call of a tool.

MaxRegistrations == 3

\* Two tools called read_file and two called run_command, of different schemas.
RegistrableTools ==
    { FILE_TOOLS[1],
      ToolDefinition("read_file", "Read the output of a command", <<Param("command")>>,
                     "read_command_output"),
      SYSTEM_TOOLS[1],
      ToolDefinition("run_command", "Execute a shell command within a time limit",
                     <<Param("command"), Param("timeout")>>, "run_command_timed") }

RegistryKeys == {"file_path", "command", "timeout", "name"}

RegistryCalls ==
    {ToolCall("call_1", name, Payload(RawObject(keys), "object", keys, "")) :
        name \in {"read_file", "run_command"}, keys \in SUBSET RegistryKeys}

\* The loop of initialize_tool_registry has not started (tools/__init__.py:39).
InitRegistry ==
    /\ registry = <<>>
    /\ registered = <<>>
    /\ messages = <<>>
    /\ file = AbsentFile
    /\ global_objective = <<>>
    /\ current_plan = <<>>
    /\ current_step_index = 0
    /\ pending_error_info = <<>>
    /\ pc = "registering"
    /\ request = <<>>
    /\ llm_response_message = <<>>
    /\ was_handling_pending_error = FALSE
    /\ new_plan_adopted_this_iteration = FALSE
    /\ tool_index = 0
    /\ tool_message_batch_for_history = <<>>
    /\ all_tool_calls_successful_this_round = TRUE
    /\ tool_output_dict = <<>>
    /\ err_info = <<>>
    /\ pre_turn = <<>>
    /\ gateway_calls = 0
    /\ turn_calls = 0
    /\ cursors = <<>>
    /\ dispatched = <<>>
    /\ invoked = <<>>
    /\ received = <<>>
    /\ exit_path = "none"
    /\ iterations = <<>>

\* One pass of the loop of initialize_tool_registry (tools/__init__.py:50-53).
Register(tool) ==
    /\ pc = "registering"
    /\ Len(registered) < MaxRegistrations
    /\ registry' = register(registry, tool)
    /\ registered' = Append(registered, tool)
    /\ UNCHANGED <<messages, file, global_objective, current_plan, current_step_index,
                   pending_error_info, pc, locals, pre_turn, gateway_calls, turn_calls, cursors,
                   dispatched, invoked, received, exit_path, iterations>>

\* The registry is returned and ModernChatAssistant.__init__ goes on (main.py:95-113).
RegistryReturned ==
    /\ pc = "registering"
    /\ messages' = MessagesAfterInit(file)
    /\ file' = FileAfterInit(file)
    /\ pc' = "idle"
    /\ UNCHANGED <<registry, registered, global_objective, current_plan,
                   current_step_index, pending_error_info, locals, pre_turn, gateway_calls,
                   turn_calls, cursors, dispatched, invoked, received, exit_path, iterations>>

GatewayRequestsRegistryCall ==
    /\ gateway_calls = 1
    /\ \E tool_call \in RegistryCalls : GatewayResponds(Response(EmptyContent, <<tool_call>>))

NextRegistry ==
    \/ \E tool \in RegistrableTools : Register(tool)
    \/ RegistryReturned
    \/ \E user_input \in UserInputs : ProcessTurn(user_input)
    \/ LoopTop
    \/ GatewayRequestsRegistryCall
    \/ DispatchAny

SpecRegistry == InitRegistry /\ [][NextRegistry]_vars

----------------------------------------------------------------------------
\* The history store on its own: a session at rest whose transcript is any list of at
\* most MaxHistoryLen messages of the shapes below, saved to the history file; the
\* program is started again on that file, and turns are begun and ended by a gateway
\* failure.

MaxHistoryLen == 2

StoreMessages ==
    { SystemMessage(SystemPrompt),
      UserMessage("hello"),
      AssistantMessage(Text("Hi, how can I help?"), <<>>),
      AssistantMessage(EmptyContent,
                       <<ToolCall("call_1", "read_file", ReadArgs),
                         ToolCall("call_2", "write_file", WriteArgs)>>),
      ToolMessage("call_1", "Error: [Errno 2] No such file or directory") }

MessageLists == UNION {[1..n -> StoreMessages] : n \in 0..MaxHistoryLen}

\* A session whose last turn has ended with transcript history (main.py:353-355).
InitStoreWith(history) ==
    /\ registry = initialize_tool_registry
    /\ registered = AllToolLists
    /\ messages = history
    /\ file = save_history(history)
    /\ global_objective = <<>>
    /\ current_plan = <<>>
    /\ current_step_index = 0
    /\ pending_error_info = <<>>
    /\ pc = "idle"
    /\ request = <<>>
    /\ llm_response_message = <<>>
    /\ was_handling_pending_error = FALSE
    /\ new_plan_adopted_this_iteration = FALSE
    /\ tool_index = 0
    /\ tool_message_batch_for_history = <<>>
    /\ all_tool_calls_successful_this_round = TRUE
    /\ tool_output_dict = <<>>
    /\ err_info = <<>>
    /\ pre_turn = <<>>
    /\ gateway_calls = 0
    /\ turn_calls = 0
    /\ cursors = <<>>
    /\ dispatched = <<>>
    /\ invoked = <<>>
    /\ received = <<>>
    /\ exit_path = "final_answer"
    /\ iterations = <<>>

InitStore == \E history \in MessageLists : InitStoreWith(history)

\* The session is left with quit (main.py:373-375) and the program is started again:
\* main_async builds a new ModernChatAssistant on the history file (main.py:87-113, 396).
Restart ==
    /\ pc \in {"idle", "terminated"}
    /\ exit_path # "none"
    /\ pc' = "idle"
    /\ registry' = initialize_tool_registry
    /\ registered' = AllToolLists
    /\ messages' = MessagesAfterInit(file)
    /\ file' = FileAfterInit(file)
    /\ global_objective' = <<>>
    /\ current_plan' = <<>>
    /\ current_step_index' = 0
    /\ pending_error_info' = <<>>
    /\ LocalsUnbound
    /\ pre_turn' = <<>>
    /\ turn_calls' = 0
    /\ cursors' = <<>>
    /\ dispatched' = <<>>
    /\ invoked' = <<>>
    /\ received' = <<>>
    /\ exit_path' = "none"
    /\ iterations' = <<>>
    /\ UNCHANGED gateway_calls

\* The process ends inside the _save_history of main.py:145, after the user message
\* was appended.
TerminatedDuringSave(user_input) ==
    /\ pc = "idle"
    /\ Len(messages) <= MaxHistoryLen
    /\ messages' = Append(messages, UserMessage(user_input))
    /\ file' \in InterruptedWrites(file, Append(messages, UserMessage(user_input)))
    /\ pc' = "terminated"
    /\ pre_turn' = messages
    /\ exit_path' = "terminated"
    /\ UNCHANGED <<registry, registered, global_objective, current_plan, current_step_index,
                   pending_error_info, locals, gateway_calls, turn_calls, cursors, dispatched,
                   invoked, received, iterations>>

NextStore ==
    \/ Restart
    \/ \E user_input \in UserInputs : TerminatedDuringSave(user_input)
    \/ \E user_input \in UserInputs : ProcessTurn(user_input)
    \/ LoopTop
    \/ GatewayFails

SpecStore == InitStore /\ [][NextStore]_vars

----------------------------------------------------------------------------
\* The tools that wrap an external process (tools/system_tools.py): the first request
\* of a session is answered with one call of run_command or run_python, and the
\* process the tool starts produces output, produces none, or outlives the timeout.

\* What the external process of run_command and run_python may do.
ProcessBehaviours == {"output", "no_output", "expires"}

\* tools/system_tools.py, run_command: what the call does for a behaviour of the shell
\* command.
run_command(behaviour) ==
    IF behaviour = "expires" THEN ImplReturns("Command timed out")
    ELSE IF behaviour = "no_output" THEN ImplReturns("No output")
    ELSE ImplReturns("total 0")

\* tools/system_tools.py, run_python: what the call does for a behaviour of the
\* interpreter.
run_python(behaviour) ==
    IF behaviour = "expires" THEN ImplReturns("Execution timed out")
    ELSE IF behaviour = "no_output" THEN ImplReturns("No output")
    ELSE ImplReturns("42")

\* The implementation a registered system tool name stands for, on a behaviour.
SystemToolImpl(name, behaviour) ==
    IF name = "run_python" THEN run_python(behaviour) ELSE run_command(behaviour)

ProcessPayloads ==
    { Payload("{\"command\": \"sleep 30\"}", "object", {"command"}, ""),
      Payload("{\"command\": \"sleep 30\", \"timeout\": 1}", "object",
              {"command", "timeout"}, ""),
      Payload("{\"code\": \"while True: pass\"}", "object", {"code"}, ""),
      Payload("{\"code\": \"while True: pass\", \"timeout\": 1}", "object",
              {"code", "timeout"}, ""),
      Payload("{\"timeout\": 1}", "object", {"timeout"}, "") }

ProcessCalls ==
    {ToolCall("call_1", name, payload) :
        name \in {"run_command", "run_python"}, payload \in ProcessPayloads}

GatewayRequestsProcessCall ==
    /\ gateway_calls = 1
    /\ \E tool_call \in ProcessCalls : GatewayResponds(Response(EmptyContent, <<tool_call>>))

\* The dispatch of a call of a system tool, whose process behaves in one of the ways.
DispatchProcess ==
    /\ pc = "tools"
    /\ \E behaviour \in ProcessBehaviours :
           DispatchTool(SystemToolImpl(llm_response_message[1].tool_calls[tool_index]
                                           .function.name, behaviour))

NextProcess ==
    \/ \E user_input \in UserInputs : ProcessTurn(user_input)
    \/ LoopTop
    \/ GatewayRequestsProcessCall
    \/ DispatchProcess
    \/ GatewayFails

SpecProcess == Init /\ [][NextProcess]_vars

----------------------------------------------------------------------------
\* Properties.

\* The tool calls left on the response being processed.
BatchCalls == llm_response_message[1].tool_calls

\* C1: fail-fast within a batch. The calls given to run_tool are the first calls of
\* the batch, in request order; every dispatched call but the last succeeded; and once
\* the last dispatched call has failed the batch is over (no call is waiting to be
\* dispatched) and, until the next response, pending_error_info holds the tool name,
\* the arguments and the error message of that call.
C1_FailFast ==
    (llm_response_message # <<>> /\ dispatched # <<>>) =>
        LET n == Len(dispatched)
        IN  /\ n <= Len(BatchCalls)
            /\ \A i \in 1..n : dispatched[i].call = BatchCalls[i]
            /\ \A i \in 1..(n - 1) : dispatched[i].outcome.status = "success"
            /\ dispatched[n].outcome.status = "error" =>
                   /\ pc \in {"loop", "gateway"}
                   /\ pending_error_info # <<>>
                   /\ pending_error_info[1].tool_name = dispatched[n].call.function.name
                   /\ pending_error_info[1].arguments = dispatched[n].call.function.arguments.raw
                   /\ pending_error_info[1].error_message = dispatched[n].outcome.message

\* A batch of three calls of which the first succeeded and the second failed.
C1_Witness ==
    /\ pc = "loop"
    /\ llm_response_message # <<>>
    /\ Len(BatchCalls) = 3
    /\ Len(dispatched) = 2
    /\ dispatched[1].outcome.status = "success"
    /\ dispatched[2].outcome.status = "error"
    /\ pending_error_info # <<>>

\* The names of the parameters of a schema that are not marked "required": false.
SchemaRequired(parameters) ==
    {parameters[i].name : i \in {j \in 1..Len(parameters) : parameters[j].required # <<FALSE>>}}

\* The call names a registered tool and its payload is an object with every required field.
HasAllRequired(call) ==
    /\ \E i \in 1..Len(registry) : registry[i].name = call.function.name
    /\ call.function.arguments.kind = "object"
    /\ \A i \in 1..Len(registry) :
           registry[i].name = call.function.name =>
               SchemaRequired(registry[i].parameters) \subseteq call.function.arguments.keys

\* C2: dispatch never raises. For a registered tool and a payload with all required
\* fields, run_tool hands process_turn a tagged outcome and nothing propagates: the
\* outcome is success with the implementation's result when the implementation
\* returned, error with its message when it raised, and a success only ever comes
\* from an implementation that returned.
C2_DispatchNeverRaises ==
    \A i \in 1..Len(dispatched) :
        HasAllRequired(dispatched[i].call) =>
            /\ pc # "crashed"
            /\ dispatched[i].outcome.status \in {"success", "error"}
            /\ \A j \in 1..Len(invoked) :
                   invoked[j].call = dispatched[i].call =>
                       IF invoked[j].impl.kind = "return"
                       THEN dispatched[i].outcome = Success(invoked[j].impl.value)
                       ELSE dispatched[i].outcome = Error(invoked[j].impl.message)
            /\ dispatched[i].outcome.status = "success" => invoked # <<>>

\* A complete payload whose implementation raised a TypeError of its own.
C2_Witness ==
    /\ pc = "loop"
    /\ Len(dispatched) = 1
    /\ HasAllRequired(dispatched[1].call)
    /\ Len(invoked) = 1
    /\ invoked[1].impl.class = "TypeError"
    /\ dispatched[1].outcome = Error(invoked[1].impl.message)

\* The required fields of a schema that a payload lacks, in schema order.
SchemaMissing(parameters, keys) ==
    LET names == [i \in 1..Len(parameters) |-> parameters[i].name]
        lacking(n) == n \in SchemaRequired(parameters) /\ n \notin keys
    IN  SelectSeq(names, lacking)

\* C3: for a registered tool and an argument mapping that lacks a required field,
\* the outcome is an error whose message names exactly the missing required fields
\* in schema order, and the implementation is not invoked.
C3_MissingFieldsNamed ==
    \A i \in 1..Len(dispatched) :
        \A t \in 1..Len(registry) :
            LET call == dispatched[i].call
                missing == SchemaMissing(registry[t].parameters, call.function.arguments.keys)
            IN  (/\ registry[t].name = call.function.name
                 /\ call.function.arguments.kind = "object"
                 /\ missing # <<>>) =>
                    /\ dispatched[i].outcome =
                           Error("Missing required arguments for '" \o call.function.name
                                     \o "': " \o JoinComma(missing))
                    /\ invoked = <<>>

\* C4: a call naming an unregistered tool yields an error outcome, nothing propagates
\* and no implementation runs; process_turn then treats it as a failing call: the
\* batch is over, the tool message carries the error, pending_error_info describes
\* the call, and the next request is made in error-recovery mode.
C4_UnknownTool ==
    \A i \in 1..Len(dispatched) :
        LET call == dispatched[i].call
            outcome == dispatched[i].outcome
        IN  (\A t \in 1..Len(registry) : registry[t].name # call.function.name) =>
                /\ pc \in {"loop", "gateway"}
                /\ outcome.status = "error"
                /\ invoked = <<>>
                /\ (call.function.arguments.kind = "object"
                        /\ "name" \notin call.function.arguments.keys) =>
                       outcome.message = "Tool '" \o call.function.name \o "' is not registered"
                /\ Last(messages) = ToolMessage(call.id, "Error: " \o outcome.message)
                /\ pending_error_info =
                       <<[tool_name |-> call.function.name, step_goal |-> "N/A",
                          error_message |-> outcome.message,
                          arguments |-> call.function.arguments.raw]>>
                /\ pc = "gateway" => was_handling_pending_error

\* An unregistered tool called with a well-formed payload, and the error-recovery
\* request that follows.
C4_Witness ==
    /\ pc = "gateway"
    /\ was_handling_pending_error
    /\ Len(dispatched) = 1
    /\ dispatched[1].call.function.name = "web_search"
    /\ dispatched[1].call.function.arguments.keys = {"file_path"}
    /\ dispatched[1].outcome = Error("Tool 'web_search' is not registered")

\* C5: a gateway failure on the first iteration of a turn leaves the transcript, in
\* memory and on disk, exactly as it was before the user message was appended.
C5_FirstIterationFailure ==
    (pc = "idle" /\ exit_path = "gateway_failure" /\ turn_calls = 1) =>
        /\ messages = pre_turn
        /\ load_history(file) = pre_turn

\* A turn of a session with earlier history that ended on its first gateway call.
C5_Witness ==
    /\ pc = "idle"
    /\ exit_path = "gateway_failure"
    /\ turn_calls = 1
    /\ Len(pre_turn) = 3
    /\ gateway_calls > 1

\* C6 as stated: whenever the gateway fails, at whichever iteration, the user message
\* appended at the start of the turn is no longer in the transcript when the turn ends.
C6_AlwaysRetracted ==
    (pc = "idle" /\ exit_path = "gateway_failure") =>
        ~(Len(messages) > Len(pre_turn) /\ messages[Len(pre_turn) + 1].role = "user")

\* C6 as amended: when the gateway fails, the turn's user message is retracted only
\* if the failure comes on the first iteration of the turn, where the transcript
\* becomes what it was before the turn; on a failure at a later iteration nothing is
\* removed, so the user message and what was appended after it stay.
C6_RetractedOnFirstIterationOnly ==
    [][(pc = "gateway" /\ pc' = "idle") =>
          \/ turn_calls = 1 /\ messages' = pre_turn
          \/ /\ turn_calls > 1
             /\ messages' = messages
             /\ Len(messages) > Len(pre_turn) + 1
             /\ SubSeq(messages, 1, Len(pre_turn)) = pre_turn
             /\ messages[Len(pre_turn) + 1] = UserMessage(global_objective[1])]_vars

\* A turn ended by a gateway failure on its second request.
C6_Witness ==
    /\ pc = "idle"
    /\ exit_path = "gateway_failure"
    /\ turn_calls = 2
    /\ Len(messages) > Len(pre_turn) + 1
    /\ messages[Len(pre_turn) + 1].role = "user"

\* C7: whenever a turn has ended, by whichever exit, global_objective and
\* pending_error_info are none and the history file holds the in-memory transcript.
C7_TurnEndState ==
    pc = "idle" =>
        /\ global_objective = <<>>
        /\ pending_error_info = <<>>
        /\ load_history(file) = messages

\* A turn ended by a gateway failure while a tool error was pending.
C7_Witness ==
    /\ pc = "idle"
    /\ exit_path = "gateway_failure"
    /\ dispatched # <<>>
    /\ Last(dispatched).outcome.status = "error"

\* A plan entry that is a dict with a goal.
HasGoal(entry) == entry.kind = "dict" /\ entry.has_goal

\* The first n entries of v without those whose (step_id, goal) occurred before them.
RECURSIVE FirstOccurrences(_, _)
FirstOccurrences(v, n) ==
    IF n = 0 THEN <<>>
    ELSE FirstOccurrences(v, n - 1)
             \o (IF \E j \in 1..(n - 1) : v[j].step_id = v[n].step_id /\ v[j].goal = v[n].goal
                 THEN <<>>
                 ELSE <<v[n]>>)

\* The list with the entries lacking a goal removed, then later duplicates removed.
ExpectedPlan(steps) ==
    LET valid == SelectSeq(steps, HasGoal)
    IN  FirstOccurrences(valid, Len(valid))

\* The response received holds a JSON object with a list under "plan".
ReceivedPlanList ==
    /\ received # <<>>
    /\ received[1].content.form \in {"fenced", "bare"}
    /\ received[1].content.json.syntax = "ok"
    /\ received[1].content.json.has_plan
    /\ received[1].content.json.plan_is_list

\* C8: the adopted plan is the parsed list with the steps lacking a goal removed and
\* then every step whose (step_id, goal) already occurred removed, order and first
\* occurrences kept; cleaning the adopted plan again returns it unchanged.
C8_AdoptedPlanIsCleaned ==
    (ReceivedPlanList /\ ExpectedPlan(received[1].content.json.plan) # <<>>) =>
        /\ current_plan = ExpectedPlan(received[1].content.json.plan)
        /\ CleanPlan(current_plan) = current_plan

\* The list [{1,"a"}, {1,"a"}, {2,"b"}] adopted as [{1,"a"}, {2,"b"}].
C8_Witness ==
    /\ ReceivedPlanList
    /\ received[1].content.json.plan = <<Step(1, "a"), Step(1, "a"), Step(2, "b")>>
    /\ current_plan = <<Step(1, "a"), Step(2, "b")>>
    /\ new_plan_adopted_this_iteration

\* The content proposes a plan that is not to be adopted: its JSON does not parse, or
\* its list is empty or holds no entry with a goal.
NotAdoptable(content) ==
    /\ content.form \in {"fenced", "bare"}
    /\ \/ content.json.syntax = "malformed"
       \/ /\ content.json.syntax = "ok"
          /\ content.json.has_plan
          /\ content.json.plan_is_list
          /\ \A i \in 1..Len(content.json.plan) : ~HasGoal(content.json.plan[i])

\* C9: a response whose plan proposal is empty, all-invalid or unparsable adopts
\* nothing: receiving it leaves current_plan, current_step_index and
\* pending_error_info as they were, the assistant message recorded is the content
\* and the tool calls as emitted, and the tool calls are the batch to dispatch.
C9_NoAdoption ==
    [][(pc = "gateway" /\ pc' \in {"tools", "text"} /\ NotAdoptable(received'[1].content)) =>
          /\ ~new_plan_adopted_this_iteration'
          /\ current_plan' = current_plan
          /\ current_step_index' = current_step_index
          /\ pending_error_info' = pending_error_info
          /\ messages' = Append(messages, AssistantMessage(received'[1].content,
                                                           received'[1].tool_calls))
          /\ llm_response_message' = received'
          /\ (pc' = "tools") = (received'[1].tool_calls # <<>>)
          /\ pc' = "tools" => tool_index' = 1]_vars

\* An empty plan proposed with a tool call while the second step of a plan is active.
C9_Witness ==
    /\ pc = "tools"
    /\ received = <<Response(EmptyPlan, <<ToolCall("call_1", "read_file", ReadArgs)>>)>>
    /\ current_plan = <<StepA, StepB>>
    /\ current_step_index = 1
    /\ Last(messages) = AssistantMessage(EmptyPlan, <<ToolCall("call_1", "read_file", ReadArgs)>>)

\* C10: in an iteration that adopts a plan, in whichever mode, from the adoption to
\* the next request current_plan is the new cleaned plan, current_step_index is 0,
\* pending_error_info is none, and the assistant message recorded last carries the
\* fixed acknowledgement and no tool calls; the adoption does not end the turn.
C10_Adoption ==
    (received # <<>> /\ pc \in {"tools", "text", "loop", "gateway"}
        /\ ReceivedPlanList /\ ExpectedPlan(received[1].content.json.plan) # <<>>) =>
        /\ new_plan_adopted_this_iteration
        /\ pc # "tools"
        /\ current_plan = ExpectedPlan(received[1].content.json.plan)
        /\ current_step_index = 0
        /\ pending_error_info = <<>>
        /\ Last(messages) = [role |-> "assistant", content |-> Text(PlanAck)]
        /\ load_history(file) = messages

\* A plan adopted in error-recovery mode while the first plan of the turn was active.
C10_Witness ==
    /\ pc = "loop"
    /\ new_plan_adopted_this_iteration
    /\ was_handling_pending_error
    /\ turn_calls = 3
    /\ messages[Len(pre_turn) + 2] = [role |-> "assistant", content |-> Text(PlanAck)]
    /\ current_plan = <<StepC>>

\* C11: plan wins over tool calls. While the response received last holds an adoptable
\* plan together with tool calls, no call of it is given to run_tool, no
\* implementation runs, the loop never stands at a tool call, and the transcript ends
\* with the assistant message recorded for that response, which has no tool_calls
\* (so no tool-role message was appended after it).
C11_PlanWins ==
    (ReceivedPlanList /\ ExpectedPlan(received[1].content.json.plan) # <<>>
        /\ received[1].tool_calls # <<>>) =>
        /\ dispatched = <<>>
        /\ invoked = <<>>
        /\ pc \in {"text", "loop", "gateway"}
        /\ llm_response_message[1].tool_calls = <<>>
        /\ Last(messages).role = "assistant"
        /\ "tool_calls" \notin DOMAIN Last(messages)
        /\ load_history(file) = messages

\* The plan [C] received with a read_file call, after the iteration is over.
C11_Witness ==
    /\ pc = "loop"
    /\ received = <<Response(PlanC, <<ToolCall("call_1", "read_file", ReadArgs)>>)>>
    /\ current_plan = <<StepC>>
    /\ dispatched = <<>>
    /\ Last(messages) = [role |-> "assistant", content |-> Text(PlanAck)]

\* The iteration of this turn that adopted the plan in force (0: none did).
LastAdopted ==
    IF \E i \in 1..Len(iterations) : iterations[i] = "adopted"
    THEN CHOOSE i \in 1..Len(iterations) :
             /\ iterations[i] = "adopted"
             /\ \A j \in (i + 1)..Len(iterations) : iterations[j] # "adopted"
    ELSE 0

\* The iterations of this turn that came after the adoption.
SinceAdoption == SubSeq(iterations, LastAdopted + 1, Len(iterations))

LaterRegistered(name) ==
    registered[CHOOSE i \in 1..Len(registered) :
                   /\ registered[i].name = name
                   /\ \A j \in (i + 1)..Len(registered) : registered[j].name # name]

\* C13 as stated: register overwrites by name. Every name given to register is mapped
\* to the tool registered last under it: the schema exported for the name describes
\* that tool, with the required fields of its parameters, and a dispatch of the name
\* invokes that tool's implementation.
C13_LaterRegistrationWins ==
    \A n \in 1..Len(registered) :
        LET name == registered[n].name
            later == LaterRegistered(name)
        IN  /\ \E i \in 1..Len(registry) :
                   /\ registry[i].name = name
                   /\ registry[i].description = later.description
                   /\ registry[i].parameters = later.parameters
                   /\ registry[i].implementation = later.implementation
                   /\ get_lm_studio_schemas(registry)[i].function.description = later.description
                   /\ get_lm_studio_schemas(registry)[i].function.parameters.required
                          = SchemaMissing(later.parameters, {})
            /\ \A j \in 1..Len(invoked) :
                   invoked[j].call.function.name = name =>
                       invoked[j].implementation = later.implementation

\* The schema exported under a name.
SchemaOf(name) ==
    LET schemas == get_lm_studio_schemas(registry)
    IN  schemas[CHOOSE i \in 1..Len(schemas) : schemas[i].function.name = name]

\* C14: the exported schemas hold exactly one entry for every name given to register;
\* an entry carries the name, the description and the raw parameters of one tool
\* registered under that name, and its required list is that tool's parameter names,
\* in schema order, whose entry does not mark "required": false. Dispatch validates
\* against the same list: a call whose arguments bind is refused with the fields of
\* that list it lacks, in that order, and reaches the implementation when it lacks none.
C14_SchemasDescribeRegistry ==
    LET schemas == get_lm_studio_schemas(registry)
    IN  /\ {schemas[i].function.name : i \in 1..Len(schemas)}
               = {registered[n].name : n \in 1..Len(registered)}
        /\ \A i, j \in 1..Len(schemas) :
               schemas[i].function.name = schemas[j].function.name => i = j
        /\ \A i \in 1..Len(schemas) :
               /\ schemas[i].type = "function"
               /\ schemas[i].function.parameters.type = "object"
               /\ \E n \in 1..Len(registered) :
                      /\ schemas[i].function.name = registered[n].name
                      /\ schemas[i].function.description = registered[n].description
                      /\ schemas[i].function.parameters.properties = registered[n].parameters
                      /\ schemas[i].function.parameters.required
                             = SchemaMissing(registered[n].parameters, {})
        /\ \A d \in 1..Len(dispatched) :
               LET call == dispatched[d].call
                   keys == call.function.arguments.keys
                   absent(f) == f \notin keys
               IN  (/\ \E i \in 1..Len(schemas) : schemas[i].function.name = call.function.name
                    /\ call.function.arguments.kind = "object"
                    /\ "name" \notin keys) =>
                       LET missing == SelectSeq(SchemaOf(call.function.name)
                                                    .function.parameters.required, absent)
                       IN  IF missing # <<>>
                           THEN /\ invoked = <<>>
                                /\ dispatched[d].outcome =
                                       Error("Missing required arguments for '"
                                                 \o call.function.name \o "': "
                                                 \o JoinComma(missing))
                           ELSE invoked # <<>>

\* run_command registered with its optional timeout and called without it, after a
\* second tool of that name was given to register.
C14_Witness ==
    /\ Len(registered) = 3
    /\ registered[1] = SYSTEM_TOOLS[1]
    /\ registered[2].name = "run_command"
    /\ registered[2] # registered[1]
    /\ Len(get_lm_studio_schemas(registry)) = 2
    /\ SchemaOf("run_command").function.parameters.required = <<"command">>
    /\ Len(dispatched) = 1
    /\ dispatched[1].call.function.name = "run_command"
    /\ dispatched[1].call.function.arguments.keys = {"command"}
    /\ dispatched[1].outcome.status = "success"

\* The assistant message nearest before position i of the transcript (0: none).
NearestAssistant(i) ==
    IF \E j \in 1..(i - 1) : messages[j].role = "assistant"
    THEN CHOOSE j \in 1..(i - 1) :
             /\ messages[j].role = "assistant"
             /\ \A k \in (j + 1)..(i - 1) : messages[k].role # "assistant"
    ELSE 0

\* C15: every tool-role message of the transcript follows an assistant message that
\* has tool_calls, with only tool-role messages between the two, and its tool_call_id
\* is the id of one of those tool_calls: the n-th tool message after the assistant
\* message answers its n-th call.
C15_ToolMessagesAnswerCalls ==
    \A i \in 1..Len(messages) :
        messages[i].role = "tool" =>
            LET a == NearestAssistant(i)
            IN  /\ a > 0
                /\ \A k \in (a + 1)..(i - 1) : messages[k].role = "tool"
                /\ "tool_calls" \in DOMAIN messages[a]
                /\ i - a <= Len(messages[a].tool_calls)
                /\ messages[i].tool_call_id = messages[a].tool_calls[i - a].id
                /\ \E n \in 1..Len(messages[a].tool_calls) :
                       messages[a].tool_calls[n].id = messages[i].tool_call_id

\* A batch of three calls answered by two tool messages, the second an error.
C15_Witness ==
    /\ pc = "loop"
    /\ Len(messages) > 3
    /\ dispatched # <<>>
    /\ messages[Len(messages) - 2].role = "assistant"
    /\ "tool_calls" \in DOMAIN messages[Len(messages) - 2]
    /\ Len(messages[Len(messages) - 2].tool_calls) = 3
    /\ messages[Len(messages) - 1].role = "tool"
    /\ messages[Len(messages) - 1].tool_call_id = "call_1"
    /\ Last(messages).role = "tool"
    /\ Last(messages).tool_call_id = "call_2"
    /\ Last(dispatched).outcome.status = "error"

\* C16: at every point where process_turn is suspended (the gateway call, a tool
\* dispatch) and whenever no turn is running, the message list in the history file is
\* the in-memory transcript.
C16_PersistedAtSuspension ==
    pc \in {"gateway", "tools", "idle"} =>
        /\ file.exists
        /\ file.text.syntax = "ok"
        /\ load_history(file) = messages

\* The second call of a batch is being dispatched: the user message and the assistant
\* message with its tool_calls are in the file.
C16_Witness ==
    /\ pc = "tools"
    /\ tool_index = 2
    /\ Len(messages) = Len(pre_turn) + 2
    /\ "tool_calls" \in DOMAIN Last(messages)
    /\ load_history(file) = messages
    /\ load_history(file) # pre_turn

C18_ModeSelection ==
    pc = "gateway" =>
        IF pending_error_info # <<>>
        THEN /\ was_handling_pending_error
             /\ request = Append(messages,
                                 [role |-> "system",
                                  content |-> Text(ErrorHandlingPrompt(pending_error_info[1],
                                                                       global_objective[1]))])
        ELSE IF current_plan # <<>> /\ current_step_index < Len(current_plan)
        THEN /\ ~was_handling_pending_error
             /\ request = Append(messages,
                                 [role |-> "system",
                                  content |-> Text(PlanStepPrompt(
                                                       current_step_index,
                                                       current_plan[current_step_index + 1].goal,
                                                       global_objective[1]))])
        ELSE /\ ~was_handling_pending_error
             /\ current_plan = <<>>
             /\ request = messages

\* An error-recovery request made while the second step of a plan is active.
C18_Witness ==
    /\ pc = "gateway"
    /\ pending_error_info # <<>>
    /\ current_plan # <<>>
    /\ current_step_index < Len(current_plan)
    /\ Len(request) = Len(messages) + 1
    /\ Last(request).role = "system"

\* The number of system-role messages of a message list.
SystemCount(msgs) == Len(SelectSeq(msgs, LAMBDA m : m.role = "system"))

\* C19: the mode instructions go into the request only. Once a turn has begun, the
\* transcript and the history file hold as many system-role messages as the transcript
\* held before the turn, and every message after those is a user, assistant or tool
\* message, also while a request carrying an instruction is with the gateway.
C19_InstructionsNotInTranscript ==
    exit_path # "none" =>
        /\ SystemCount(messages) = SystemCount(pre_turn)
        /\ SystemCount(load_history(file)) = SystemCount(pre_turn)
        /\ \A i \in (Len(pre_turn) + 1)..Len(messages) :
               messages[i].role \in {"user", "assistant", "tool"}
        /\ pc = "gateway" => SystemCount(request) \in {SystemCount(messages),
                                                       SystemCount(messages) + 1}

\* A plan-step request is with the gateway: the request holds the instruction, the
\* transcript and the file do not.
C19_Witness ==
    /\ pc = "gateway"
    /\ current_plan # <<>>
    /\ pending_error_info = <<>>
    /\ SystemCount(request) = SystemCount(messages) + 1
    /\ SystemCount(messages) = SystemCount(pre_turn)
    /\ load_history(file) = messages

\* C20: after a failing tool call, the step_goal in pending_error_info is the goal of
\* the active plan step when a plan is active with the cursor in bounds; otherwise,
\* when the iteration was resolving a pending error, the step_goal of that error,
\* also when earlier calls of the batch succeeded; otherwise "N/A".
C20_StepGoalOfFailure ==
    (pc = "loop" /\ dispatched # <<>> /\ Last(dispatched).outcome.status = "error") =>
        /\ pending_error_info # <<>>
        /\ pending_error_info[1].step_goal =
               IF current_plan # <<>> /\ current_step_index < Len(current_plan)
               THEN current_plan[current_step_index + 1].goal
               ELSE IF was_handling_pending_error
               THEN err_info[1].step_goal
               ELSE "N/A"

\* Without a plan, an error-recovery batch whose first call succeeded and whose second
\* call failed.
C20_Witness ==
    /\ pc = "loop"
    /\ current_plan = <<>>
    /\ was_handling_pending_error
    /\ err_info # <<>>
    /\ Len(dispatched) = 2
    /\ dispatched[1].outcome.status = "success"
    /\ dispatched[2].outcome.status = "error"
    /\ pending_error_info # <<>>
    /\ pending_error_info[1].step_goal = err_info[1].step_goal

\* C21: a tool failure never ends the turn. While the iteration completed last is a
\* batch that ended in failure, the turn is running; at the top of the loop
\* pending_error_info describes the failing call, and the request then sent is the
\* transcript plus the error-recovery instruction naming that call's tool, arguments
\* and error message. A turn never ends on a failed batch.
C21_FailureLoopsToRecovery ==
    (iterations # <<>> /\ Last(iterations) = "batch_failed") =>
        /\ pc \in {"loop", "gateway", "tools", "text"}
        /\ exit_path = "running"
        /\ pc \in {"loop", "gateway"} =>
               LET failed == Last(dispatched)
               IN  /\ failed.outcome.status = "error"
                   /\ pending_error_info # <<>>
                   /\ pending_error_info[1].tool_name = failed.call.function.name
                   /\ pending_error_info[1].arguments = failed.call.function.arguments.raw
                   /\ pending_error_info[1].error_message = failed.outcome.message
        /\ pc \in {"gateway", "tools", "text"} => was_handling_pending_error
        /\ pc = "gateway" =>
               request = Append(messages,
                                [role |-> "system",
                                 content |-> Text(ErrorHandlingPrompt(
                                     [tool_name |-> Last(dispatched).call.function.name,
                                      step_goal |-> pending_error_info[1].step_goal,
                                      error_message |-> Last(dispatched).outcome.message,
                                      arguments |-> Last(dispatched).call.function.arguments.raw],
                                     global_objective[1]))])

\* The error-recovery request that follows a batch whose second call failed.
C21_Witness ==
    /\ pc = "gateway"
    /\ iterations = <<"batch_failed">>
    /\ Len(dispatched) = 2
    /\ was_handling_pending_error
    /\ Last(request).role = "system"

\* C22: a batch in which every call succeeded leaves pending_error_info none, also
\* when it was issued in error-recovery mode, and moves the cursor of an active plan
\* forward by exactly one, however many calls the batch held; without a plan the
\* cursor stays.
C22_SuccessfulBatch ==
    [][(/\ pc = "tools"
        /\ pc' \in {"loop", "idle"}
        /\ Len(dispatched') = Len(BatchCalls)
        /\ \A i \in 1..Len(dispatched') : dispatched'[i].outcome.status = "success") =>
           /\ pending_error_info' = <<>>
           /\ current_plan' = current_plan
           /\ current_step_index' = IF current_plan # <<>> THEN current_step_index + 1
                                    ELSE current_step_index
           /\ messages' = messages \o [i \in 1..Len(dispatched') |->
                                           ToolMessage(dispatched'[i].call.id,
                                                       JsonDumpsOutcome(dispatched'[i].outcome))]
      ]_vars

\* A batch of three successful calls issued in error-recovery mode for the first step
\* of the plan [A, B].
C22_Witness ==
    /\ pc = "loop"
    /\ iterations = <<"adopted", "batch_failed", "batch_ok">>
    /\ Len(dispatched) = 3
    /\ was_handling_pending_error
    /\ current_plan = <<StepA, StepB>>
    /\ current_step_index = 1
    /\ pending_error_info = <<>>

\* C23: while the iteration completed last is a fully successful batch and no plan is
\* active, the turn has not ended: the loop is at its top without a pending error, and
\* the request then sent is in free mode, the transcript as it is, ending with the
\* tool messages of the batch.
C23_SuccessWithoutPlanLoops ==
    (iterations # <<>> /\ Last(iterations) = "batch_ok" /\ current_plan = <<>>) =>
        /\ pc \in {"loop", "gateway", "tools", "text"}
        /\ exit_path = "running"
        /\ pc \in {"loop", "gateway"} =>
               /\ pending_error_info = <<>>
               /\ Len(messages) >= Len(dispatched)
               /\ \A i \in 1..Len(dispatched) :
                      messages[Len(messages) - Len(dispatched) + i]
                          = ToolMessage(dispatched[i].call.id,
                                        JsonDumpsOutcome(dispatched[i].outcome))
        /\ pc = "gateway" =>
               /\ ~was_handling_pending_error
               /\ request = messages

\* The free-mode request made after a successful batch of three calls without a plan.
C23_Witness ==
    /\ pc = "gateway"
    /\ iterations = <<"batch_ok">>
    /\ current_plan = <<>>
    /\ Len(dispatched) = 3
    /\ request = messages
    /\ Last(request).role = "tool"
    /\ turn_calls = 2

\* C24 as stated: an iteration without tool calls, with a plan active and none adopted
\* in it, moves the cursor forward by exactly one, whether the text answered a plan
\* step or an error prompt, and leaves pending_error_info none.
C24_TextAdvancesByOne ==
    [][(pc = "text" /\ current_plan # <<>> /\ ~new_plan_adopted_this_iteration) =>
           /\ current_step_index' = current_step_index + 1
           /\ pending_error_info' = <<>>]_vars

\* C25: while the iteration completed last is a response without tool calls and
\* without an adopted plan, and no plan is active, the turn has ended by the
\* final-answer exit in that iteration: no request was made after it, the transcript
\* ends with the assistant message, and pending_error_info is none; so too when the
\* response answered an error prompt.
C25_TextWithoutPlanEndsTurn ==
    (iterations # <<>> /\ Last(iterations) = "text" /\ current_plan = <<>>) =>
        /\ pc = "idle"
        /\ exit_path = "final_answer"
        /\ turn_calls = Len(iterations)
        /\ pending_error_info = <<>>
        /\ global_objective = <<>>
        /\ Last(messages).role = "assistant"
        /\ "tool_calls" \notin DOMAIN Last(messages)
        /\ received # <<>>
        /\ Last(messages).content = received[1].content

\* A text answer to the error prompt that followed a failed batch, without a plan.
C25_Witness ==
    /\ pc = "idle"
    /\ exit_path = "final_answer"
    /\ iterations = <<"batch_failed", "text">>
    /\ current_plan = <<>>
    /\ turn_calls = 2

\* C26: whenever a request is with the gateway, in whichever mode, no plan is active
\* or the cursor is below the plan length.
C26_NoRequestPastPlanEnd ==
    pc = "gateway" =>
        \/ current_plan = <<>>
        \/ /\ current_step_index >= 0
           /\ current_step_index < Len(current_plan)

\* An error-recovery request for the last step of a plan.
C26_Witness ==
    /\ pc = "gateway"
    /\ was_handling_pending_error
    /\ current_plan # <<>>
    /\ current_step_index = Len(current_plan) - 1

\* C27: a step of a turn either leaves the earlier messages of the transcript in
\* place, adding messages after them, or removes exactly the last message, which is
\* then the user message of this turn, leaving the transcript of before the turn; and
\* while a turn runs or has ended, that transcript is a prefix of the current one.
C27_PreTurnTranscriptKept ==
    [][/\ IF Len(messages') < Len(messages)
          THEN /\ pc = "gateway"
               /\ messages' = Front(messages)
               /\ Last(messages) = UserMessage(global_objective[1])
               /\ messages' = pre_turn
          ELSE SubSeq(messages', 1, Len(messages)) = messages
       /\ exit_path' # "none" =>
              /\ Len(messages') >= Len(pre_turn')
              /\ SubSeq(messages', 1, Len(pre_turn')) = pre_turn'
              /\ load_history(file') = messages'
      ]_vars

\* A second turn, on a transcript that holds the first turn's messages, ended by a
\* gateway failure on its first request.
C27_Witness ==
    /\ pc = "idle"
    /\ exit_path = "gateway_failure"
    /\ turn_calls = 1
    /\ messages = pre_turn
    /\ \E i \in 1..Len(pre_turn) : pre_turn[i].role = "tool"

\* C30: at the first request of every turn no plan is active, the cursor is 0,
\* pending_error_info is none and the request is the transcript, ending with the
\* turn's user message, with no instruction added, however the turn before ended.
C30_TurnStartsFresh ==
    (pc = "gateway" /\ turn_calls = 1) =>
        /\ current_plan = <<>>
        /\ current_step_index = 0
        /\ pending_error_info = <<>>
        /\ ~was_handling_pending_error
        /\ request = messages
        /\ messages = Append(pre_turn, UserMessage(global_objective[1]))

\* The first request of a turn that follows a turn in which a plan was adopted.
C30_Witness ==
    /\ pc = "gateway"
    /\ turn_calls = 1
    /\ gateway_calls > 1
    /\ \E i \in 1..Len(pre_turn) : pre_turn[i] = [role |-> "assistant", content |-> Text(PlanAck)]
    /\ request = messages

\* C28 as stated: when the process of run_command or run_python outlives its timeout,
\* the outcome of the dispatch is an error, and once the batch is over
\* pending_error_info is set, so that the next request is made in error-recovery mode.
C28_TimeoutIsError ==
    \A j \in 1..Len(invoked) :
        invoked[j].impl \in {run_command("expires"), run_python("expires")} =>
            /\ \A i \in 1..Len(dispatched) :
                   dispatched[i].call = invoked[j].call =>
                       dispatched[i].outcome.status = "error"
            /\ pc = "loop" => pending_error_info # <<>>
            /\ pc = "gateway" => was_handling_pending_error

\* C29 as stated: save overwrites atomically. When the process has ended inside a
\* save, loading the file gives the complete list saved before or the complete new
\* list.
C29_SaveIsAtomic ==
    pc = "terminated" => load_history(file) \in {pre_turn, messages}

\* The content of the tool message that records an outcome (main.py:279, 298).
ToolContentOf(outcome) ==
    IF outcome.status = "error"
    THEN Text("Error: " \o outcome.message)
    ELSE Text(JsonDumpsOutcome(outcome))

\* C31: one tool message per dispatched call. While the calls of a batch are being
\* dispatched nothing is appended to the transcript, which ends with the assistant
\* message; when the batch is over the transcript grows by exactly as many tool
\* messages as calls were given to run_tool, the i-th answering the i-th dispatched
\* call with its outcome, the failing call included; the calls after a failing call
\* were not dispatched and no tool message carries their id.
C31_OneToolMessagePerDispatch ==
    [][/\ (pc = "tools" /\ pc' = "tools") =>
              /\ messages' = messages
              /\ Last(messages).role = "assistant"
              /\ Len(dispatched') = Len(dispatched) + 1
       /\ (pc = "tools" /\ pc' \in {"loop", "idle"}) =>
              LET n == Len(dispatched')
                  base == Len(messages)
              IN  /\ n >= 1
                  /\ n <= Len(BatchCalls)
                  /\ Len(messages') = base + n
                  /\ SubSeq(messages', 1, base) = messages
                  /\ messages[base].role = "assistant"
                  /\ \A i \in 1..n :
                         /\ dispatched'[i].call = BatchCalls[i]
                         /\ messages'[base + i].role = "tool"
                         /\ messages'[base + i].tool_call_id = BatchCalls[i].id
                         /\ messages'[base + i].content = ToolContentOf(dispatched'[i].outcome)
                  /\ n < Len(BatchCalls) => dispatched'[n].outcome.status = "error"
                  /\ \A k \in (n + 1)..Len(BatchCalls) :
                         \A i \in 1..n : messages'[base + i].tool_call_id # BatchCalls[k].id
      ]_vars

\* A batch of three calls whose second call failed: two tool messages, the second the
\* error of call_2, and none for call_3.
C31_Witness ==
    /\ pc = "loop"
    /\ llm_response_message # <<>>
    /\ Len(BatchCalls) = 3
    /\ Len(dispatched) = 2
    /\ Len(tool_message_batch_for_history) = 2
    /\ Len(messages) > 3
    /\ messages[Len(messages) - 2].role = "assistant"
    /\ messages[Len(messages) - 1] = ToolMessage("call_1", JsonDumpsOutcome(dispatched[1].outcome))
    /\ Last(messages) = ToolMessage("call_2", "Error: " \o dispatched[2].outcome.message)

\* C32: a batch that ends in failure leaves current_plan and current_step_index as
\* they were when the batch was requested, also when earlier calls of the batch
\* succeeded: no pass over a call changes them, and the pass that meets the failure
\* goes back to the top of the loop with the error pending. The request that follows
\* is made in error-recovery mode for the step the cursor still points at.
C32_FailedBatchKeepsPlan ==
    [][/\ (pc = "tools" /\ pc' = "tools") =>
              /\ current_plan' = current_plan
              /\ current_step_index' = current_step_index
       /\ (pc = "tools" /\ Last(dispatched').outcome.status = "error") =>
              /\ current_plan' = current_plan
              /\ current_step_index' = current_step_index
              /\ pc' = "loop"
              /\ pending_error_info' # <<>>
              /\ Last(iterations') = "batch_failed"
       /\ (pc = "loop" /\ iterations # <<>> /\ Last(iterations) = "batch_failed") =>
              /\ pc' = "gateway"
              /\ was_handling_pending_error'
              /\ current_plan' = current_plan
              /\ current_step_index' = current_step_index
              /\ current_plan # <<>> =>
                     /\ current_step_index < Len(current_plan)
                     /\ err_info'[1].step_goal
                            = GoalOr(current_plan[current_step_index + 1], "Goal not specified")
      ]_vars

\* The second step of the plan [A, B] met a batch whose first call succeeded and whose
\* second call failed: the cursor still points at the second step.
C32_Witness ==
    /\ pc = "loop"
    /\ iterations = <<"adopted", "batch_ok", "batch_failed">>
    /\ Len(dispatched) = 2
    /\ dispatched[1].outcome.status = "success"
    /\ dispatched[2].outcome.status = "error"
    /\ current_plan = <<StepA, StepB>>
    /\ current_step_index = 1
    /\ pending_error_info # <<>>
    /\ pending_error_info[1].step_goal = StepB.goal

\* C33: within a turn (after its start, which resets both), current_plan changes only
\* in the step that adopts a plan from the response, and current_step_index goes down
\* only in that step, to 0; every other step of the turn leaves the plan as it is and
\* leaves the cursor where it is or moves it forward.
C33_PlanAndCursorMonotone ==
    [][pc # "idle" =>
           /\ current_plan' # current_plan =>
                  /\ pc = "gateway"
                  /\ new_plan_adopted_this_iteration'
                  /\ current_plan' # <<>>
                  /\ current_step_index' = 0
           /\ current_step_index' < current_step_index =>
                  /\ pc = "gateway"
                  /\ new_plan_adopted_this_iteration'
                  /\ current_step_index' = 0
           /\ ~(pc = "gateway" /\ new_plan_adopted_this_iteration') =>
                  /\ current_plan' = current_plan
                  /\ current_step_index' >= current_step_index
      ]_vars

\* The plan [A, B] had reached its second step when the response proposed the plan
\* [C]: the plan is replaced and the cursor is back at 0.
C33_Witness ==
    /\ pc = "text"
    /\ iterations = <<"adopted", "batch_ok">>
    /\ new_plan_adopted_this_iteration
    /\ current_plan = <<StepC>>
    /\ current_step_index = 0
    /\ turn_calls = 3

\* The gateway calls a run of plain-text responses may take from the j-th request of
\* the turn on: the steps the plan had left, or one when no plan was active.
TextBudget(j) ==
    IF cursors[j].plan_len > 0 THEN cursors[j].plan_len - cursors[j].index ELSE 1

\* C34: bounded termination under plain-text responses. Take any request of a turn
\* from which on every response was plain text (no tool calls, no plan adopted). The
\* number of such responses is at most the number of plan steps left when that request
\* was sent, and the turn has ended once that many were received; when no plan was
\* active the turn ended with the first of them. The turn then ended by the
\* final-answer or the plan-complete exit.
C34_TextRunsAreBounded ==
    \A j \in 1..Len(iterations) :
        (\A i \in j..Len(iterations) : iterations[i] = "text") =>
            LET k == Len(iterations) - j + 1
            IN  /\ k <= TextBudget(j)
                /\ k = TextBudget(j) => pc = "idle"
                /\ cursors[j].plan_len = 0 =>
                       /\ k = 1
                       /\ pc = "idle"
                       /\ exit_path = "final_answer"
                /\ pc = "idle" => exit_path \in {"final_answer", "plan_complete_text"}

\* The plan [A, B] was adopted and two plain-text responses followed: the turn ended
\* with the second, two calls after the plan had two steps left.
C34_Witness ==
    /\ pc = "idle"
    /\ iterations = <<"adopted", "text", "text">>
    /\ exit_path = "plan_complete_text"
    /\ cursors[2] = [plan_len |-> 2, index |-> 0]
    /\ cursors[3] = [plan_len |-> 2, index |-> 1]
    /\ turn_calls = 3

====
